---- MODULE Spec2Model ----
(***************************************************************************)
(* shm-agent: the metric-extraction pipeline (parser -> matcher ->         *)
(* aggregator), the source processor that drives it line by line, and the  *)
(* orchestrator's snapshot / dump steps that read it.                      *)
(*                                                                         *)
(* Representation.  A Go string is a sequence of one-character strings,    *)
(* so that formatting, parsing and pattern matching are computed and not   *)
(* assumed.  A float64 is an integer (every number the model feeds in is   *)
(* integer valued).  A JSON value is a record [kind, str, num, flag, obj]  *)
(* of which only the component selected by kind is meaningful.  A log line *)
(* is its JSON document, or text that does not decode.                     *)
(***************************************************************************)
EXTENDS Integers, Sequences, FiniteSets, TLC

(***************************************************************************)
(* Bounds of the model.                                                    *)
(***************************************************************************)
MaxLines == 2
MaxSnapshots == 1
\* calls made by a sequential client of the aggregator
MaxCalls == 4
\* ticks of the snapshot ticker that Run takes
MaxTicks == 2
NumWriters == 2
OpsPerWriter == 2

(***************************************************************************)
(* JSON values (encoding/json decoding into interface{}).                  *)
(***************************************************************************)
NoFields == [f \in {} |-> 0]

Str(s) == [kind |-> "string", str |-> s, num |-> 0, flag |-> FALSE, obj |-> NoFields]
Num(n) == [kind |-> "float64", str |-> <<>>, num |-> n, flag |-> FALSE, obj |-> NoFields]
Bool(b) == [kind |-> "bool", str |-> <<>>, num |-> 0, flag |-> b, obj |-> NoFields]
Null == [kind |-> "nil", str |-> <<>>, num |-> 0, flag |-> FALSE, obj |-> NoFields]
List == [kind |-> "slice", str |-> <<>>, num |-> 0, flag |-> FALSE, obj |-> NoFields]
Obj(fields) == [kind |-> "map", str |-> <<>>, num |-> 0, flag |-> FALSE, obj |-> fields]

\* the nil map that Parse returns for a line it cannot parse
NoData == Null

(***************************************************************************)
(* strconv                                                                 *)
(***************************************************************************)
DigitChars == <<"0", "1", "2", "3", "4", "5", "6", "7", "8", "9">>

IsDigit(c) == \E d \in 1..10 : DigitChars[d] = c

DigitValue(c) == (CHOOSE d \in 1..10 : DigitChars[d] = c) - 1

RECURSIVE FormatNat(_)
FormatNat(n) ==
    IF n < 10 THEN <<DigitChars[n + 1]>>
    ELSE FormatNat(n \div 10) \o <<DigitChars[(n % 10) + 1]>>

\* strconv.FormatFloat(v, 'f', -1, 64) on an integer-valued v: the decimal
\* digits, a leading minus sign for a negative value, no decimal point
FormatFloat(v) == IF v < 0 THEN <<"-">> \o FormatNat(0 - v) ELSE FormatNat(v)

FormatBool(b) == IF b THEN <<"t", "r", "u", "e">> ELSE <<"f", "a", "l", "s", "e">>

RECURSIVE DigitsValue(_)
DigitsValue(s) ==
    IF Len(s) = 0 THEN 0
    ELSE 10 * DigitsValue(SubSeq(s, 1, Len(s) - 1)) + DigitValue(s[Len(s)])

AllDigits(s) == Len(s) > 0 /\ \A i \in 1..Len(s) : IsDigit(s[i])

\* strconv.ParseFloat(s, 64) on the strings of the model (an optional sign
\* and decimal digits, or text that is no number): <<ok, value>>
ParseFloat(s) ==
    IF Len(s) > 0 /\ s[1] \in {"-", "+"}
    THEN IF AllDigits(Tail(s))
         THEN <<TRUE, IF s[1] = "-" THEN 0 - DigitsValue(Tail(s)) ELSE DigitsValue(Tail(s))>>
         ELSE <<FALSE, 0>>
    ELSE IF AllDigits(s) THEN <<TRUE, DigitsValue(s)>> ELSE <<FALSE, 0>>

(***************************************************************************)
(* Field path resolver.  A path is the list of its dot-separated segments. *)
(***************************************************************************)
RECURSIVE Walk(_, _)
Walk(current, parts) ==
    IF Len(parts) = 0 THEN <<TRUE, current>>
    ELSE IF current.kind = "map"
         THEN IF Head(parts) \in DOMAIN current.obj
              THEN Walk(current.obj[Head(parts)], Tail(parts))
              ELSE <<FALSE, Null>>
         ELSE <<FALSE, Null>>

GetField(data, field) ==
    IF data = NoData THEN <<FALSE, Null>> ELSE Walk(data, field)

\* GetFieldString that gives no string for a number
GetFieldStringOfText(data, field) ==
    LET r == GetField(data, field) IN
    IF ~r[1] THEN <<FALSE, <<>>>>
    ELSE CASE r[2].kind = "string" -> <<TRUE, r[2].str>>
           [] r[2].kind = "bool" -> <<TRUE, FormatBool(r[2].flag)>>
           [] OTHER -> <<FALSE, <<>>>>

\* parser.GetFieldString: a string as it is, a number through
\* strconv.FormatFloat, a boolean through strconv.FormatBool
GetFieldString(data, field) ==
    LET r == GetField(data, field) IN
    IF ~r[1] THEN <<FALSE, <<>>>>
    ELSE CASE r[2].kind = "string" -> <<TRUE, r[2].str>>
           [] r[2].kind = "float64" -> <<TRUE, FormatFloat(r[2].num)>>
           [] r[2].kind = "bool" -> <<TRUE, FormatBool(r[2].flag)>>
           [] OTHER -> <<FALSE, <<>>>>

GetFieldFloat(data, field) ==
    LET r == GetField(data, field) IN
    IF ~r[1] THEN <<FALSE, 0>>
    ELSE CASE r[2].kind = "float64" -> <<TRUE, r[2].num>>
           [] r[2].kind = "string" -> ParseFloat(r[2].str)
           [] OTHER -> <<FALSE, 0>>

(***************************************************************************)
(* Parsers.  A line is [valid, doc]: valid says that the text decodes as   *)
(* JSON, doc is the decoded document.                                      *)
(***************************************************************************)
Text(doc) == [valid |-> TRUE, doc |-> doc]
Garbage == [valid |-> FALSE, doc |-> Null]

\* JSONParser.Parse: json.Unmarshal into a map fails on invalid text and on
\* a top-level value that is not an object; the literal null decodes to the
\* nil map
JSONParse(line) ==
    IF line.valid /\ line.doc.kind = "map" THEN line.doc ELSE NoData

\* RegexParser.Parse: valid says that the pattern matches the line, doc holds
\* the named groups with their matched text; no match, or a match without a
\* named group, is no record
RegexParse(line) ==
    IF line.valid /\ line.doc.kind = "map" /\ DOMAIN line.doc.obj # {}
    THEN line.doc ELSE NoData

\* p.parser.Parse(line) with the parser that parser.New built for the format
Parse(format, line) ==
    IF format = "json" THEN JSONParse(line) ELSE RegexParse(line)

(***************************************************************************)
(* Matcher                                                                 *)
(***************************************************************************)
\* config.Match; equals = "", in = [], regex = "", contains = "" are the
\* conditions left out
MatchCfg(field, equals, in, regex, contains) ==
    [present |-> TRUE, Field |-> field, Equals |-> equals, In |-> in,
     Regex |-> regex, Contains |-> contains]

\* the nil *config.Match of a metric without a match block
NoMatch ==
    [present |-> FALSE, Field |-> <<>>, Equals |-> <<>>, In |-> {},
     Regex |-> "", Contains |-> <<>>]

Status5xx == "^5\\d{2}$"

\* regexp.MatchString for the compiled patterns of the configuration
RegexMatchString(re, val) ==
    IF re = Status5xx
    THEN Len(val) = 3 /\ val[1] = "5" /\ IsDigit(val[2]) /\ IsDigit(val[3])
    ELSE FALSE

\* strings.Contains
Contains(val, sub) ==
    \E i \in 0..(Len(val) - Len(sub)) : SubSeq(val, i + 1, i + Len(sub)) = sub

\* matcher.New
NewMatcher(match) ==
    [always |-> ~match.present, field |-> match.Field, equals |-> match.Equals,
     in |-> match.In, regex |-> match.Regex, contains |-> match.Contains]

\* the result of the field lookup that Match starts with
MatchField(m, data) == GetFieldString(data, m.field)

\* Match with the lookup miss read as a match
MatchMissIsTrue(m, data) ==
    IF m.always THEN TRUE
    ELSE IF data = NoData THEN FALSE
    ELSE LET r == MatchField(m, data) IN
         IF ~r[1] THEN TRUE
         ELSE IF m.equals # <<>> THEN r[2] = m.equals
         ELSE IF m.in # {} THEN r[2] \in m.in
         ELSE IF m.regex # "" THEN RegexMatchString(m.regex, r[2])
         ELSE IF m.contains # <<>> THEN Contains(r[2], m.contains)
         ELSE FALSE

\* Matcher.Match
Match(m, data) ==
    IF m.always THEN TRUE
    ELSE IF data = NoData THEN FALSE
    ELSE LET r == MatchField(m, data) IN
         IF ~r[1] THEN FALSE
         ELSE IF m.equals # <<>> THEN r[2] = m.equals
         ELSE IF m.in # {} THEN r[2] \in m.in
         ELSE IF m.regex # "" THEN RegexMatchString(m.regex, r[2])
         ELSE IF m.contains # <<>> THEN Contains(r[2], m.contains)
         ELSE FALSE

(***************************************************************************)
(* Aggregator: the registry a.metrics, name -> MetricValue, as a pure      *)
(* value; the operations below are the bodies run under a.mu.              *)
(***************************************************************************)
Counter == "counter"
Gauge == "gauge"
Sum == "sum"
Set == "set"

\* aggregator.New
NewAggregator == [n \in {} |-> 0]

\* Register that replaces the entry of a name that is already registered
RegisterReplaces(ms, name, metricType) ==
    [n \in DOMAIN ms \cup {name} |->
        IF n = name THEN [Type |-> metricType, Value |-> 0, Set |-> {}]
        ELSE ms[n]]

Register(ms, name, metricType) ==
    IF name \in DOMAIN ms THEN ms
    ELSE [n \in DOMAIN ms \cup {name} |->
            IF n = name THEN [Type |-> metricType, Value |-> 0, Set |-> {}]
            ELSE ms[n]]

\* Inc that does not look at the type of the metric
IncAnyType(ms, name) ==
    IF name \in DOMAIN ms
    THEN [ms EXCEPT ![name].Value = @ + 1] ELSE ms

Inc(ms, name) ==
    IF name \in DOMAIN ms /\ ms[name].Type = Counter
    THEN [ms EXCEPT ![name].Value = @ + 1] ELSE ms

SetGauge(ms, name, value) ==
    IF name \in DOMAIN ms /\ ms[name].Type = Gauge
    THEN [ms EXCEPT ![name].Value = value] ELSE ms

\* Add that stores the value instead of adding it
AddOverwrite(ms, name, value) ==
    IF name \in DOMAIN ms /\ ms[name].Type = Sum
    THEN [ms EXCEPT ![name].Value = value] ELSE ms

Add(ms, name, value) ==
    IF name \in DOMAIN ms /\ ms[name].Type = Sum
    THEN [ms EXCEPT ![name].Value = @ + value] ELSE ms

AddToSet(ms, name, value) ==
    IF name \in DOMAIN ms /\ ms[name].Type = Set
    THEN [ms EXCEPT ![name].Set = @ \cup {value}] ELSE ms

\* the value Snapshot and Peek report for one metric
Observe(m) == IF m.Type = Set THEN Cardinality(m.Set) ELSE m.Value

\* Snapshot that resets gauges with the rest, as Reset does
SnapshotResetAll(m) ==
    IF m.Type = Set THEN [m EXCEPT !.Set = {}] ELSE [m EXCEPT !.Value = 0]

\* Snapshot that does not empty the sets
SnapshotKeepsSets(m) ==
    CASE m.Type = Counter -> [m EXCEPT !.Value = 0]
      [] m.Type = Sum -> [m EXCEPT !.Value = 0]
      [] OTHER -> m

\* Snapshot that does not reset the sums
SnapshotKeepsSums(m) ==
    CASE m.Type = Counter -> [m EXCEPT !.Value = 0]
      [] m.Type = Set -> [m EXCEPT !.Set = {}]
      [] OTHER -> m

\* what Snapshot leaves of one metric
SnapshotReset(m) ==
    CASE m.Type = Counter -> [m EXCEPT !.Value = 0]
      [] m.Type = Gauge -> m
      [] m.Type = Sum -> [m EXCEPT !.Value = 0]
      [] m.Type = Set -> [m EXCEPT !.Set = {}]
      [] OTHER -> m

\* the names whose type is a case of the switch of Snapshot and of Peek
Reported(ms) == {n \in DOMAIN ms : ms[n].Type \in {Counter, Gauge, Sum, Set}}

\* Snapshot: the returned map and the registry it leaves
Snapshot(ms) ==
    [result |-> [n \in Reported(ms) |-> Observe(ms[n])],
     metrics |-> [n \in DOMAIN ms |-> SnapshotReset(ms[n])]]

Peek(ms) == [n \in Reported(ms) |-> Observe(ms[n])]

\* Reset that forgets the metrics
ResetForgets(ms) == NewAggregator

\* Reset: every value to 0, every set emptied
Reset(ms) ==
    [n \in DOMAIN ms |->
        IF ms[n].Type = Set THEN [ms[n] EXCEPT !.Value = 0, !.Set = {}]
        ELSE [ms[n] EXCEPT !.Value = 0]]

\* GetMetricType: <<type, ok>>
GetMetricType(ms, name) ==
    IF name \in DOMAIN ms THEN <<ms[name].Type, TRUE>> ELSE <<"", FALSE>>

(***************************************************************************)
(* Configuration: one JSON source with the metric rules of the agent       *)
(* tests, in rule order.                                                   *)
(***************************************************************************)
\* config.Extract
ExtractCfg(field) == [present |-> TRUE, Field |-> field]

\* the nil *config.Extract
NoExtract == [present |-> FALSE, Field |-> <<>>]

\* config.Metric
MetricCfg(name, type, match, extract) ==
    [Name |-> name, Type |-> type, Match |-> match, Extract |-> extract]

SRequest == <<"r", "e", "q", "u", "e", "s", "t">>

JSONMetrics ==
    << MetricCfg("requests", "counter",
                 MatchCfg(<<"event">>, SRequest, {}, "", <<>>), NoExtract),
       MetricCfg("active_sessions", "gauge", NoMatch,
                 ExtractCfg(<<"metrics", "sessions">>)),
       MetricCfg("total_bytes", "sum", NoMatch, ExtractCfg(<<"bytes">>)),
       MetricCfg("unique_users", "set", NoMatch, ExtractCfg(<<"user_id">>)),
       MetricCfg("http_5xx", "counter",
                 MatchCfg(<<"status">>, <<>>, {}, Status5xx, <<>>), NoExtract) >>

\* config.Source
Sources ==
    << [Path |-> "/var/log/test.log", Format |-> "json", Metrics |-> JSONMetrics] >>

\* the lines a tailer can deliver to the processor of source i: text that is
\* not JSON, and four documents that between them hit and miss every rule
Lines(i) ==
    { Garbage,
      Text(Obj([event |-> Str(SRequest), bytes |-> Num(2), user_id |-> Str(<<"a">>),
                metrics |-> Obj([sessions |-> Num(3)]), status |-> Num(200)])),
      Text(Obj([event |-> Str(<<"o", "k">>), bytes |-> Str(<<"-", "1">>),
                user_id |-> Num(7), metrics |-> Obj([sessions |-> Str(<<"4">>)]),
                status |-> Num(503)])),
      Text(Obj([bytes |-> Str(<<"x">>), user_id |-> Str(<<"a">>), metrics |-> Num(5),
                status |-> Str(<<"5", "0", "0">>)])),
      Text(Obj([event |-> List, user_id |-> List, bytes |-> Null])) }

(***************************************************************************)
(* Threads: the orchestrator's main loop, one tailer goroutine per source  *)
(* (it runs processLine), and the goroutines of a client that calls the    *)
(* aggregator directly.                                                    *)
(***************************************************************************)
Main == <<"main", 0>>
NoOwner == <<"none", 0>>
Proc(i) == <<"source", i>>
Writer(i) == <<"writer", i>>

Procs == {Proc(i) : i \in 1..Len(Sources)}
Writers == {Writer(i) : i \in 1..NumWriters}
Threads == {Main} \cup Procs \cup Writers

SourceOf(p) == Sources[p[2]]

\* sourceProcessor.metrics: the rules of the source with their matchers
ProcMetrics(p) ==
    [i \in 1..Len(SourceOf(p).Metrics) |->
        [cfg |-> SourceOf(p).Metrics[i],
         matcher |-> NewMatcher(SourceOf(p).Metrics[i].Match)]]

\* agent.New / newSourceProcessor: every metric of every source is registered
\* with the aggregator, in configuration order
RECURSIVE RegisterMetrics(_, _)
RegisterMetrics(ms, cfgs) ==
    IF Len(cfgs) = 0 THEN ms
    ELSE RegisterMetrics(Register(ms, Head(cfgs).Name, Head(cfgs).Type), Tail(cfgs))

RECURSIVE RegisterSources(_, _)
RegisterSources(ms, srcs) ==
    IF Len(srcs) = 0 THEN ms
    ELSE RegisterSources(RegisterMetrics(ms, Head(srcs).Metrics), Tail(srcs))

\* the registry of TestConcurrentAccess
WriterMetrics ==
    Register(Register(Register(NewAggregator, "requests", Counter), "bytes", Sum),
             "users", Set)

(***************************************************************************)
(* Calls to the aggregator                                                 *)
(***************************************************************************)
NoCall == [op |-> "none", name |-> "", num |-> 0, str |-> <<>>]
IncCall(name) == [op |-> "Inc", name |-> name, num |-> 0, str |-> <<>>]
SetGaugeCall(name, v) == [op |-> "SetGauge", name |-> name, num |-> v, str |-> <<>>]
AddCall(name, v) == [op |-> "Add", name |-> name, num |-> v, str |-> <<>>]
AddToSetCall(name, v) == [op |-> "AddToSet", name |-> name, num |-> 0, str |-> v]

\* the body of the called method, run on the registry ms
ApplyCall(ms, c) ==
    CASE c.op = "Inc" -> Inc(ms, c.name)
      [] c.op = "SetGauge" -> SetGauge(ms, c.name, c.num)
      [] c.op = "Add" -> Add(ms, c.name, c.num)
      [] c.op = "AddToSet" -> AddToSet(ms, c.name, c.str)
      [] OTHER -> ms

\* the switch with a counter that asks for an extract block like the others
UpdateForCounterNeedsExtract(cfg, data) ==
    CASE cfg.Type = "counter" ->
            IF cfg.Extract.present THEN IncCall(cfg.Name) ELSE NoCall
      [] cfg.Type = "gauge" ->
            IF cfg.Extract.present /\ GetFieldFloat(data, cfg.Extract.Field)[1]
            THEN SetGaugeCall(cfg.Name, GetFieldFloat(data, cfg.Extract.Field)[2])
            ELSE NoCall
      [] cfg.Type = "sum" ->
            IF cfg.Extract.present /\ GetFieldFloat(data, cfg.Extract.Field)[1]
            THEN AddCall(cfg.Name, GetFieldFloat(data, cfg.Extract.Field)[2])
            ELSE NoCall
      [] cfg.Type = "set" ->
            IF cfg.Extract.present /\ GetFieldString(data, cfg.Extract.Field)[1]
            THEN AddToSetCall(cfg.Name, GetFieldString(data, cfg.Extract.Field)[2])
            ELSE NoCall
      [] OTHER -> NoCall

\* the switch with a gauge that drops the ok of GetFieldFloat
UpdateForGaugeIgnoresOk(cfg, data) ==
    CASE cfg.Type = "counter" -> IncCall(cfg.Name)
      [] cfg.Type = "gauge" ->
            IF cfg.Extract.present
            THEN SetGaugeCall(cfg.Name, GetFieldFloat(data, cfg.Extract.Field)[2])
            ELSE NoCall
      [] cfg.Type = "sum" ->
            IF cfg.Extract.present /\ GetFieldFloat(data, cfg.Extract.Field)[1]
            THEN AddCall(cfg.Name, GetFieldFloat(data, cfg.Extract.Field)[2])
            ELSE NoCall
      [] cfg.Type = "set" ->
            IF cfg.Extract.present /\ GetFieldString(data, cfg.Extract.Field)[1]
            THEN AddToSetCall(cfg.Name, GetFieldString(data, cfg.Extract.Field)[2])
            ELSE NoCall
      [] OTHER -> NoCall

\* processLine, the switch on m.cfg.Type for a matched metric: the call it
\* makes, NoCall when the extract field is missing or does not coerce
UpdateFor(cfg, data) ==
    CASE cfg.Type = "counter" -> IncCall(cfg.Name)
      [] cfg.Type = "gauge" ->
            IF cfg.Extract.present /\ GetFieldFloat(data, cfg.Extract.Field)[1]
            THEN SetGaugeCall(cfg.Name, GetFieldFloat(data, cfg.Extract.Field)[2])
            ELSE NoCall
      [] cfg.Type = "sum" ->
            IF cfg.Extract.present /\ GetFieldFloat(data, cfg.Extract.Field)[1]
            THEN AddCall(cfg.Name, GetFieldFloat(data, cfg.Extract.Field)[2])
            ELSE NoCall
      [] cfg.Type = "set" ->
            IF cfg.Extract.present /\ GetFieldString(data, cfg.Extract.Field)[1]
            THEN AddToSetCall(cfg.Name, GetFieldString(data, cfg.Extract.Field)[2])
            ELSE NoCall
      [] OTHER -> NoCall

\* processLine without the nil check
ParseNeverFails(data) == FALSE

\* processLine, "if data == nil": the line is counted as a parse error and
\* dropped
ParseFailed(data) == data = NoData

\* the loop left at the first rule that makes no call
NextRuleStopOnSkip(i, called) == IF called THEN i + 1 ELSE i + 1000

\* processLine, "for _, m := range p.metrics": the rule that follows rule i,
\* whether or not rule i made a call
NextRule(i, called) == i + 1

\* a lock that excludes nobody
CanLockAlways(owner) == TRUE

\* sync.RWMutex: Lock and RLock go through when nobody holds the write lock
\* (the model has no state in which a read lock is held across a step)
CanLock(owner) == owner = NoOwner

(***************************************************************************)
(* State                                                                   *)
(***************************************************************************)
VARIABLES
    metrics,        \* Aggregator.metrics
    mu,             \* Aggregator.mu: the thread inside a locked method
    pc,             \* where each thread is
    tmp,            \* per thread: the registry as read on entry of the locked method
    call,           \* per thread: the aggregator call in progress
    line,           \* per source: the line processLine is working on
    idx,            \* per source: the position of processLine in p.metrics
    linesParsed,    \* sourceProcessor.linesParsed
    linesMatched,   \* sourceProcessor.linesMatched
    parseErrors,    \* sourceProcessor.parseErrors
    snapResult,     \* the map returned by the last Snapshot
    peekResult,     \* dumpMetrics: the map returned by Peek, until printed
    opsDone,        \* per client goroutine: calls that have returned
    input,          \* history: per source, the lines handed to processLine
    seen,           \* history: per metric, the lines its rule is done with
    mark,           \* history: per metric, Len(seen) at the last Snapshot
    made,           \* history: per source, the calls made for the latest line
    lastOp,         \* history: the last operation that wrote to the aggregator
    nsnaps,         \* history: number of Snapshots
    issued,         \* history: totals of the calls issued by client goroutines
    apiCall,        \* history: the latest call of a sequential client of the aggregator
    ncalls,         \* history: number of calls of the sequential client
    peeks,          \* history: Peeks of the sequential client since its last other call
    ctxDone,        \* the context given to Run is cancelled
    sigChan,        \* Run: the signals pending in sigChan
    tickC,          \* Run: ticker.C holds a tick
    tail,           \* per tailer: Tailer.tail, "tailing" or "nil"
    crashed,        \* the process has died of a panic
    inflight,       \* calls of Sender.SendSnapshot that have not returned
    dryRun,         \* Agent.dryRun
    lastSend,       \* the outcome of the latest sendSnapshot
    posts,          \* history: requests made to /v1/snapshot
    termSent,       \* history: SIGTERM or SIGINT was delivered to the running agent
    reads,          \* history: per tailer, what run received from tail.Lines
    unit            \* the part of the program that is exercised on its own: a
                    \* record of its fields and of the history kept about it

\* the variables of the sequential client of the aggregator
apiVars == <<apiCall, ncalls, peeks>>

\* the variables of Agent.Run and of the tailers it starts
runVars == <<ctxDone, sigChan, tickC, tail, crashed, inflight, dryRun, lastSend,
             posts, termSent, reads>>

\* a Tailer driven by its own client
tailer == unit.tailer            \* its fields tail and cancel
tails == unit.tails              \* the tails made by tail.TailFile, in order
runs == unit.runs                \* the run goroutines started, in order
fileExists == unit.fileExists    \* the file at Tailer.path exists
tRet == unit.tRet                \* history: the latest call of Start, StartFromBeginning or Stop

\* an Agent from the entry of Run to its main loop
aRunning == unit.aRunning        \* Agent.running
aSender == unit.aSender          \* Agent.sender: "nil", or the sender, "new" or "registered"
aTailers == unit.aTailers        \* Agent.tailers: how many tailers it holds
callers == unit.callers          \* per caller of Agent.Run: where it is, and what Run returned
effects == unit.effects          \* history: what the calls of Run have done outside the agent
late == unit.late                \* history: the calls of Run refused after the one that ran had returned

\* two agents, one in each mode, given the same events
twin == unit.twin                \* per mode (dry-run, live): Aggregator.metrics of that agent
twinOut == unit.twinOut          \* per mode: the latest sendSnapshot of that agent
twinN == unit.twinN              \* history: the lines and the ticks given to both agents

unitVars == <<unit>>

\* the variables of the aggregator, of its clients and of the main loop of Run
coreVars == <<metrics, mu, pc, tmp, call, line, idx, linesParsed, linesMatched,
              parseErrors, snapResult, peekResult, opsDone, input, seen, mark,
              made, lastOp, nsnaps, issued, apiVars, runVars>>

vars == <<metrics, mu, pc, tmp, call, line, idx, linesParsed, linesMatched,
          parseErrors, snapResult, peekResult, opsDone, input, seen, mark,
          made, lastOp, nsnaps, issued, apiVars, runVars, unitVars>>

NoResult == [n \in {} |-> 0]
NoLine == Garbage

\* tailer.New: nothing is tailed, no call was made
NoCancel == 0
NoTail == 0
NoRet == [op |-> "none", err |-> "nil", n |-> 0, idle |-> TRUE]

\* callers of Agent.Run
NumCallers == 3
Callers == 1..NumCallers

\* agent.New: Run was not called
NoEffects == [loads |-> 0, registers |-> 0, activates |-> 0, starts |-> 0,
              snaps |-> 0, failed |-> "none"]

\* no part of the program is exercised on its own
NoUnit == [kind |-> "none"]
UnitsIdle == unit = NoUnit

InitCore ==
    /\ mu = NoOwner
    /\ tmp = [t \in Threads |-> NewAggregator]
    /\ call = [t \in Threads |-> NoCall]
    /\ line = [p \in Procs |-> NoLine]
    /\ idx = [p \in Procs |-> 0]
    /\ linesParsed = [p \in Procs |-> 0]
    /\ linesMatched = [p \in Procs |-> 0]
    /\ parseErrors = [p \in Procs |-> 0]
    /\ snapResult = NoResult
    /\ peekResult = NoResult
    /\ opsDone = [w \in Writers |-> 0]
    /\ input = [p \in Procs |-> <<>>]
    /\ made = [p \in Procs |-> <<>>]
    /\ lastOp = "New"
    /\ nsnaps = 0
    /\ issued = [inc |-> 0, add |-> 0, set |-> {}]
    /\ apiCall = NoCall
    /\ ncalls = 0
    /\ peeks = 0
    /\ ctxDone = FALSE
    /\ sigChan = <<>>
    /\ tickC = FALSE
    /\ tail = [p \in Procs |-> "nil"]
    /\ crashed = FALSE
    /\ inflight = 0
    /\ lastSend = "none"
    /\ posts = 0
    /\ termSent = FALSE
    /\ reads = [p \in Procs |-> <<>>]

InitCommon == InitCore /\ dryRun = FALSE /\ UnitsIdle

\* the agent after agent.New: all metrics registered, nothing running yet
Init ==
    /\ InitCommon
    /\ metrics = RegisterSources(NewAggregator, Sources)
    /\ pc = [t \in Threads |-> IF t = Main THEN "select" ELSE "idle"]
    /\ seen = [n \in DOMAIN metrics |-> <<>>]
    /\ mark = [n \in DOMAIN metrics |-> 0]

(***************************************************************************)
(* Source processor: processLine, run by the tailer goroutine of a source  *)
(***************************************************************************)
RECURSIVE SumLen(_, _)
SumLen(f, S) ==
    IF S = {} THEN 0
    ELSE LET x == CHOOSE y \in S : TRUE IN Len(f[x]) + SumLen(f, S \ {x})

\* the number of lines handed to the processors so far
NumLines == SumLen(input, Procs)

\* the rule at position idx[p] is done with the line: on to the next rule,
\* or return from processLine after the last one
Advance(p, called) ==
    LET name == ProcMetrics(p)[idx[p]].cfg.Name
        next == NextRule(idx[p], called)
    IN  /\ seen' = [seen EXCEPT ![name] = Append(@, line[p])]
        /\ IF next > Len(ProcMetrics(p))
           THEN /\ pc' = [pc EXCEPT ![p] = "idle"]
                /\ idx' = [idx EXCEPT ![p] = 0]
                /\ line' = [line EXCEPT ![p] = NoLine]
           ELSE /\ pc' = [pc EXCEPT ![p] = "loop"]
                /\ idx' = [idx EXCEPT ![p] = next]
                /\ UNCHANGED line

\* the tailer hands line l to processLine: parse it, count it
ProcessLine(p, l) ==
    /\ pc[p] = "idle"
    /\ NumLines < MaxLines
    /\ input' = [input EXCEPT ![p] = Append(@, l)]
    /\ made' = [made EXCEPT ![p] = <<>>]
    /\ IF ParseFailed(Parse(SourceOf(p).Format, l))
       THEN /\ parseErrors' = [parseErrors EXCEPT ![p] = @ + 1]
            /\ seen' = [n \in DOMAIN seen |->
                          IF \E i \in 1..Len(ProcMetrics(p)) : ProcMetrics(p)[i].cfg.Name = n
                          THEN Append(seen[n], l) ELSE seen[n]]
            /\ UNCHANGED <<pc, line, idx, linesParsed>>
       ELSE /\ linesParsed' = [linesParsed EXCEPT ![p] = @ + 1]
            /\ line' = [line EXCEPT ![p] = l]
            /\ idx' = [idx EXCEPT ![p] = 1]
            /\ pc' = [pc EXCEPT ![p] = "loop"]
            /\ UNCHANGED <<parseErrors, seen>>
    /\ UNCHANGED <<metrics, mu, tmp, call, linesMatched, snapResult, peekResult,
                   opsDone, mark, lastOp, nsnaps, issued>>
    /\ UNCHANGED <<apiVars, runVars, unitVars>>

\* one turn of the loop over p.metrics: the matcher, the extraction and,
\* when the rule makes a call (Inc, SetGauge, Add, AddToSet), the entry of the
\* called method: a.mu.Lock() and the read of the registry
EvalMetric(p) ==
    /\ pc[p] = "loop"
    /\ LET m == ProcMetrics(p)[idx[p]]
           data == Parse(SourceOf(p).Format, line[p])
       IN  IF ~Match(m.matcher, data)
           THEN /\ Advance(p, FALSE)
                /\ UNCHANGED <<linesMatched, call, mu, tmp>>
           ELSE /\ linesMatched' = [linesMatched EXCEPT ![p] = @ + 1]
                /\ IF UpdateFor(m.cfg, data) = NoCall
                   THEN /\ Advance(p, FALSE)
                        /\ UNCHANGED <<call, mu, tmp>>
                   ELSE /\ CanLock(mu)
                        /\ call' = [call EXCEPT ![p] = UpdateFor(m.cfg, data)]
                        /\ mu' = p
                        /\ tmp' = [tmp EXCEPT ![p] = metrics]
                        /\ pc' = [pc EXCEPT ![p] = "locked"]
                        /\ UNCHANGED <<seen, idx, line>>
    /\ UNCHANGED <<metrics, linesParsed, parseErrors, snapResult,
                   peekResult, opsDone, input, mark, made, lastOp, nsnaps, issued>>
    /\ UNCHANGED <<apiVars, runVars, unitVars>>

(***************************************************************************)
(* A call of Inc, SetGauge, Add or AddToSet: a.mu.Lock() and the read of   *)
(* the registry, then the write and the deferred a.mu.Unlock().            *)
(***************************************************************************)
AggLock(t) ==
    /\ pc[t] = "call"
    /\ CanLock(mu)
    /\ mu' = t
    /\ tmp' = [tmp EXCEPT ![t] = metrics]
    /\ pc' = [pc EXCEPT ![t] = "locked"]
    /\ UNCHANGED <<metrics, call, line, idx, linesParsed, linesMatched, parseErrors,
                   snapResult, peekResult, opsDone, input, seen, mark, made,
                   lastOp, nsnaps, issued>>
    /\ UNCHANGED <<apiVars, runVars, unitVars>>

\* the write of the locked method and the unlock
Commit(t) ==
    /\ metrics' = [n \in DOMAIN metrics |->
                     IF n = call[t].name THEN ApplyCall(tmp[t], call[t])[n]
                     ELSE metrics[n]]
    /\ mu' = NoOwner
    /\ tmp' = [tmp EXCEPT ![t] = NewAggregator]
    /\ call' = [call EXCEPT ![t] = NoCall]
    /\ lastOp' = "Write"

ProcAggUnlock(p) ==
    /\ pc[p] = "locked"
    /\ Commit(p)
    /\ made' = [made EXCEPT ![p] = Append(@, call[p])]
    /\ Advance(p, TRUE)
    /\ UNCHANGED <<linesParsed, linesMatched, parseErrors, snapResult, peekResult,
                   opsDone, input, mark, nsnaps, issued>>
    /\ UNCHANGED <<apiVars, runVars, unitVars>>

(***************************************************************************)
(* Orchestrator main loop: ticker -> sendSnapshot, SIGUSR1 -> dumpMetrics  *)
(***************************************************************************)
SnapshotLock ==
    /\ pc[Main] = "select"
    /\ nsnaps < MaxSnapshots
    /\ CanLock(mu)
    /\ mu' = Main
    /\ tmp' = [tmp EXCEPT ![Main] = metrics]
    /\ pc' = [pc EXCEPT ![Main] = "snapshot"]
    /\ UNCHANGED <<metrics, call, line, idx, linesParsed, linesMatched, parseErrors,
                   snapResult, peekResult, opsDone, input, seen, mark, made,
                   lastOp, nsnaps, issued>>
    /\ UNCHANGED <<apiVars, runVars, unitVars>>

SnapshotUnlock ==
    /\ pc[Main] = "snapshot"
    /\ metrics' = Snapshot(tmp[Main]).metrics
    /\ snapResult' = Snapshot(tmp[Main]).result
    /\ mu' = NoOwner
    /\ tmp' = [tmp EXCEPT ![Main] = NewAggregator]
    /\ pc' = [pc EXCEPT ![Main] = "publish"]
    /\ mark' = [n \in DOMAIN mark |-> Len(seen[n])]
    /\ lastOp' = "Snapshot"
    /\ nsnaps' = nsnaps + 1
    /\ UNCHANGED <<call, line, idx, linesParsed, linesMatched, parseErrors,
                   peekResult, opsDone, input, seen, made, issued>>
    /\ UNCHANGED <<apiVars, runVars, unitVars>>

\* the rest of sendSnapshot: the map is printed or handed to the sender
Publish ==
    /\ pc[Main] = "publish"
    /\ pc' = [pc EXCEPT ![Main] = "select"]
    /\ UNCHANGED <<metrics, mu, tmp, call, line, idx, linesParsed, linesMatched,
                   parseErrors, snapResult, peekResult, opsDone, input, seen, mark,
                   made, lastOp, nsnaps, issued>>
    /\ UNCHANGED <<apiVars, runVars, unitVars>>

\* dumpMetrics: a.aggregator.Peek() under the read lock
DumpPeek ==
    /\ pc[Main] = "select"
    /\ CanLock(mu)
    /\ peekResult' = Peek(metrics)
    /\ pc' = [pc EXCEPT ![Main] = "dump"]
    /\ UNCHANGED <<metrics, mu, tmp, call, line, idx, linesParsed, linesMatched,
                   parseErrors, snapResult, opsDone, input, seen, mark, made,
                   lastOp, nsnaps, issued>>
    /\ UNCHANGED <<apiVars, runVars, unitVars>>

\* dumpMetrics: printDryRunSnapshot(metrics), back to the select
DumpPrint ==
    /\ pc[Main] = "dump"
    /\ peekResult' = NoResult
    /\ pc' = [pc EXCEPT ![Main] = "select"]
    /\ UNCHANGED <<metrics, mu, tmp, call, line, idx, linesParsed, linesMatched,
                   parseErrors, snapResult, opsDone, input, seen, mark, made,
                   lastOp, nsnaps, issued>>
    /\ UNCHANGED <<apiVars, runVars, unitVars>>

Next ==
    \/ \E p \in Procs : \E l \in Lines(p[2]) : ProcessLine(p, l)
    \/ \E p \in Procs : EvalMetric(p)
    \/ \E p \in Procs : ProcAggUnlock(p)
    \/ SnapshotLock
    \/ SnapshotUnlock
    \/ Publish
    \/ DumpPeek
    \/ DumpPrint

Spec == Init /\ [][Next]_vars

(***************************************************************************)
(* Client goroutines calling the aggregator directly, as the goroutines of *)
(* TestConcurrentAccess do, and the Peek after they are joined.            *)
(***************************************************************************)
WriterCalls ==
    { IncCall("requests"), AddCall("bytes", 1), AddCall("bytes", 2),
      AddToSetCall("users", <<"A">>), AddToSetCall("users", <<"B">>) }

AllDone == \A w \in Writers : opsDone[w] = OpsPerWriter

InitWriters ==
    /\ InitCommon
    /\ metrics = WriterMetrics
    /\ pc = [t \in Threads |-> IF t = Main THEN "select" ELSE "idle"]
    /\ seen = [n \in DOMAIN metrics |-> <<>>]
    /\ mark = [n \in DOMAIN metrics |-> 0]

WriterCall(w, c) ==
    /\ pc[w] = "idle"
    /\ opsDone[w] < OpsPerWriter
    /\ call' = [call EXCEPT ![w] = c]
    /\ pc' = [pc EXCEPT ![w] = "call"]
    /\ issued' = [inc |-> issued.inc + (IF c.op = "Inc" THEN 1 ELSE 0),
                  add |-> issued.add + (IF c.op = "Add" THEN c.num ELSE 0),
                  set |-> issued.set \cup (IF c.op = "AddToSet" THEN {c.str} ELSE {})]
    /\ UNCHANGED <<metrics, mu, tmp, line, idx, linesParsed, linesMatched,
                   parseErrors, snapResult, peekResult, opsDone, input, seen, mark,
                   made, lastOp, nsnaps>>
    /\ UNCHANGED <<apiVars, runVars, unitVars>>

WriterAggUnlock(w) ==
    /\ pc[w] = "locked"
    /\ Commit(w)
    /\ opsDone' = [opsDone EXCEPT ![w] = @ + 1]
    /\ pc' = [pc EXCEPT ![w] = "idle"]
    /\ UNCHANGED <<line, idx, linesParsed, linesMatched, parseErrors, snapResult,
                   peekResult, input, seen, mark, made, nsnaps, issued>>
    /\ UNCHANGED <<apiVars, runVars, unitVars>>

\* wg.Wait() and the Peek that follows it
JoinPeek == AllDone /\ DumpPeek

NextWriters ==
    \/ \E w \in Writers : \E c \in WriterCalls : WriterCall(w, c)
    \/ \E w \in Writers : AggLock(w)
    \/ \E w \in Writers : WriterAggUnlock(w)
    \/ JoinPeek

SpecWriters == InitWriters /\ [][NextWriters]_vars

(***************************************************************************)
(* A sequential client of the aggregator, as the unit tests of the package *)
(* are: any sequence of Register, Inc, SetGauge, Add, AddToSet, Peek and   *)
(* Snapshot on a new aggregator, on names that are registered or not.      *)
(***************************************************************************)
ApiNames == {"metric", "unknown"}
MetricTypes == {Counter, Gauge, Sum, Set}

RegisterCall(name, t) ==
    [op |-> "Register", name |-> name, num |-> 0, str |-> <<>>, type |-> t]
PeekCall == [op |-> "Peek", name |-> "", num |-> 0, str |-> <<>>]
SnapshotCall == [op |-> "Snapshot", name |-> "", num |-> 0, str |-> <<>>]

\* the writes the client chooses from
ApiWrites ==
    UNION { { IncCall(n), SetGaugeCall(n, 10), AddCall(n, 2),
              AddToSetCall(n, <<"a">>), AddToSetCall(n, <<"b">>) } : n \in ApiNames }

\* the variables the sequential client leaves alone
agentVars == <<mu, pc, tmp, call, line, idx, linesParsed, linesMatched,
               parseErrors, opsDone, input, seen, mark, made, nsnaps, issued>>

\* a := New()
InitApi ==
    /\ InitCommon
    /\ metrics = NewAggregator
    /\ pc = [t \in Threads |-> "idle"]
    /\ seen = [n \in {} |-> <<>>]
    /\ mark = [n \in {} |-> 0]

\* the client makes the call c
ApiCalled(c) ==
    /\ ncalls < MaxCalls
    /\ ncalls' = ncalls + 1
    /\ apiCall' = c
    /\ peeks' = IF c.op = "Peek" THEN peeks + 1 ELSE 0

ApiRegister(name, t) ==
    /\ ApiCalled(RegisterCall(name, t))
    /\ metrics' = Register(metrics, name, t)
    /\ lastOp' = "Register"
    /\ UNCHANGED <<snapResult, peekResult, agentVars, runVars, unitVars>>

ApiWrite(c) ==
    /\ ApiCalled(c)
    /\ metrics' = ApplyCall(metrics, c)
    /\ lastOp' = "Write"
    /\ UNCHANGED <<snapResult, peekResult, agentVars, runVars, unitVars>>

\* Peek that resets what it reports, as Snapshot does
ApiPeekResets ==
    /\ ApiCalled(PeekCall)
    /\ peekResult' = Peek(metrics)
    /\ metrics' = Snapshot(metrics).metrics
    /\ UNCHANGED <<snapResult, lastOp, agentVars, runVars, unitVars>>

ApiPeek ==
    /\ ApiCalled(PeekCall)
    /\ peekResult' = Peek(metrics)
    /\ UNCHANGED <<metrics, snapResult, lastOp, agentVars, runVars, unitVars>>

ApiSnapshot ==
    /\ ApiCalled(SnapshotCall)
    /\ snapResult' = Snapshot(metrics).result
    /\ metrics' = Snapshot(metrics).metrics
    /\ lastOp' = "Snapshot"
    /\ UNCHANGED <<peekResult, agentVars, runVars, unitVars>>

NextApi ==
    \/ \E n \in ApiNames : \E t \in MetricTypes : ApiRegister(n, t)
    \/ \E c \in ApiWrites : ApiWrite(c)
    \/ ApiPeek
    \/ ApiSnapshot

SpecApi == InitApi /\ [][NextApi]_vars

(***************************************************************************)
(* Agent.Run from the moment its main loop is entered (identity loaded,    *)
(* sender registered, every tailer started, signals notified, ticker       *)
(* running), with the run goroutine of every tailer.  A line callback      *)
(* (processLine) is one step here.                                         *)
(***************************************************************************)
\* make(chan os.Signal, 1)
SigChanSize == 1

TermSignals == {"SIGTERM", "SIGINT"}
Signals == TermSignals \cup {"SIGUSR1"}

\* tail.Line: a line of text, or a read error
ReadOk(l) == [err |-> FALSE, text |-> l]
ReadErr == [err |-> TRUE, text |-> NoLine]
\* what the tail of source i delivers: the lines that carry an event name,
\* and a read error
RunLines(i) ==
    {l \in Lines(i) : "event" \in DOMAIN l.doc.obj /\ l.doc.obj.event.kind = "string"}
Reads(i) == {ReadOk(l) : l \in RunLines(i)} \cup {ReadErr}

\* the calls processLine makes for the record data on the rules rs, in order
RECURSIVE CallsFor(_, _)
CallsFor(rs, data) ==
    IF Len(rs) = 0 THEN <<>>
    ELSE (IF Match(Head(rs).matcher, data) /\ UpdateFor(Head(rs).cfg, data) # NoCall
          THEN <<UpdateFor(Head(rs).cfg, data)>> ELSE <<>>)
         \o CallsFor(Tail(rs), data)

\* the number of rules of rs whose matcher matches data
RECURSIVE MatchCount(_, _)
MatchCount(rs, data) ==
    IF Len(rs) = 0 THEN 0
    ELSE (IF Match(Head(rs).matcher, data) THEN 1 ELSE 0) + MatchCount(Tail(rs), data)

\* the registry after the calls cs, made in order: the first call, then the
\* others on the registry m it leaves
RECURSIVE ApplyCalls(_, _)
ApplyCalls(ms, cs) ==
    IF Len(cs) = 0 THEN ms
    ELSE CHOOSE r \in {ApplyCalls(m, Tail(cs)) : m \in {ApplyCall(ms, Head(cs))}} : TRUE

\* processLine on each line the tail of a source can deliver: whether the
\* parser fails, how many rules match, and the calls made, in order
ProcessLineTable ==
    UNION { { LET data == Parse(SourceOf(p).Format, l)
              IN  [proc |-> p,
                   line |-> l,
                   failed |-> ParseFailed(data),
                   matched |-> IF ParseFailed(data) THEN 0
                               ELSE MatchCount(ProcMetrics(p), data),
                   calls |-> IF ParseFailed(data) THEN <<>>
                             ELSE CallsFor(ProcMetrics(p), data)]
              : l \in RunLines(p[2]) } : p \in Procs }

\* processLine of p on the line l
ProcessLineOf(p, l) == CHOOSE t \in ProcessLineTable : t.proc = p /\ t.line = l

\* run skips every line, as it does a read error
SkipReadAlways(r) == TRUE

\* run: a read error is logged and skipped, any other line goes to the handler
SkipRead(r) == r.err

\* the process is running
Alive == ~crashed

\* the context of the run goroutine of p (a child of the context of Run,
\* cancelled by Stop) is done, or tail.Lines is closed
TailerDone(p) == ctxDone \/ tail[p] = "nil"

\* the variables Run and the tailers leave alone
clientVars == <<mu, tmp, call, idx, opsDone, made, issued, apiVars, unitVars>>

InitRun ==
    /\ mu = NoOwner
    /\ tmp = [t \in Threads |-> NewAggregator]
    /\ call = [t \in Threads |-> NoCall]
    /\ line = [p \in Procs |-> NoLine]
    /\ idx = [p \in Procs |-> 0]
    /\ linesParsed = [p \in Procs |-> 0]
    /\ linesMatched = [p \in Procs |-> 0]
    /\ parseErrors = [p \in Procs |-> 0]
    /\ snapResult = NoResult
    /\ peekResult = NoResult
    /\ opsDone = [w \in Writers |-> 0]
    /\ input = [p \in Procs |-> <<>>]
    /\ made = [p \in Procs |-> <<>>]
    /\ lastOp = "New"
    /\ nsnaps = 0
    /\ issued = [inc |-> 0, add |-> 0, set |-> {}]
    /\ apiCall = NoCall
    /\ ncalls = 0
    /\ peeks = 0
    /\ metrics = RegisterSources(NewAggregator, Sources)
    /\ seen = [n \in DOMAIN metrics |-> <<>>]
    /\ mark = [n \in DOMAIN metrics |-> 0]
    /\ pc = [t \in Threads |-> IF t \in Writers THEN "idle" ELSE "select"]
    /\ ctxDone = FALSE
    /\ sigChan = <<>>
    /\ tickC = FALSE
    /\ tail = [p \in Procs |-> "tailing"]
    /\ crashed = FALSE
    /\ inflight = 0
    /\ dryRun \in BOOLEAN
    /\ lastSend = "none"
    /\ posts = 0
    /\ termSent = FALSE
    /\ reads = [p \in Procs |-> <<>>]
    /\ UnitsIdle

(* ------------------------- the environment ----------------------------- *)
\* the caller of Run cancels the context
Cancel ==
    /\ Alive
    /\ pc[Main] # "returned"
    /\ ~ctxDone
    /\ ctxDone' = TRUE
    /\ UNCHANGED <<metrics, pc, line, linesParsed, linesMatched, parseErrors,
                   snapResult, peekResult, input, seen, mark, lastOp, nsnaps,
                   sigChan, tickC, tail, crashed, inflight, dryRun, lastSend,
                   posts, termSent, reads, clientVars>>

\* the signal s is delivered to the process: signal.Notify hands it to
\* sigChan without blocking, so it is dropped when sigChan is full
Signal(s) ==
    /\ Alive
    /\ pc[Main] # "returned"
    /\ sigChan' = IF Len(sigChan) < SigChanSize THEN Append(sigChan, s) ELSE sigChan
    /\ termSent' = (termSent \/ s \in TermSignals)
    /\ UNCHANGED <<metrics, pc, line, linesParsed, linesMatched, parseErrors,
                   snapResult, peekResult, input, seen, mark, lastOp, nsnaps,
                   ctxDone, tickC, tail, crashed, inflight, dryRun, lastSend,
                   posts, reads, clientVars>>

\* the ticker fires
Tick ==
    /\ Alive
    /\ pc[Main] # "returned"
    /\ nsnaps < MaxTicks
    /\ ~tickC
    /\ tickC' = TRUE
    /\ UNCHANGED <<metrics, pc, line, linesParsed, linesMatched, parseErrors,
                   snapResult, peekResult, input, seen, mark, lastOp, nsnaps,
                   ctxDone, sigChan, tail, crashed, inflight, dryRun, lastSend,
                   posts, termSent, reads, clientVars>>

(* --------------------------- Tailer.run -------------------------------- *)
\* the select of run receives r from tail.Lines
TailRecv(p, r) ==
    /\ Alive
    /\ pc[p] = "select"
    /\ tail[p] = "tailing"
    /\ Len(reads[p]) < MaxLines
    /\ reads' = [reads EXCEPT ![p] = Append(@, r)]
    /\ pc' = [pc EXCEPT ![p] = "handle"]
    /\ line' = [line EXCEPT ![p] = r.text]
    /\ UNCHANGED <<metrics, linesParsed, linesMatched, parseErrors,
                   snapResult, peekResult, input, seen, mark, lastOp, nsnaps,
                   ctxDone, sigChan, tickC, tail, crashed, inflight, dryRun,
                   lastSend, posts, termSent, clientVars>>

\* the body of the loop of run on the line r it has received: a read error
\* is logged, any other line goes to t.handler(line.Text), which is
\* processLine from its entry to its return.  Then run comes back to its
\* select and evaluates t.tail.Lines.  The read of t.tail is not ordered
\* with the write of Stop: once Stop has set it to nil the read gives nil,
\* and the goroutine panics, or still gives the tail it was started with.
TailCall(p) ==
    /\ Alive
    /\ pc[p] = "handle"
    /\ LET r == reads[p][Len(reads[p])]
           l == line[p]
           done == ProcessLineOf(p, l)
       IN  IF SkipRead(r)
           THEN UNCHANGED <<metrics, linesParsed, linesMatched, parseErrors,
                            input, seen, lastOp>>
           ELSE /\ input' = [input EXCEPT ![p] = Append(@, l)]
                /\ seen' = [n \in DOMAIN seen |->
                              IF \E i \in 1..Len(SourceOf(p).Metrics) :
                                    SourceOf(p).Metrics[i].Name = n
                              THEN Append(seen[n], l) ELSE seen[n]]
                /\ IF done.failed
                   THEN /\ parseErrors' = [parseErrors EXCEPT ![p] = @ + 1]
                        /\ UNCHANGED <<metrics, linesParsed, linesMatched, lastOp>>
                   ELSE /\ linesParsed' = [linesParsed EXCEPT ![p] = @ + 1]
                        /\ linesMatched' = [linesMatched EXCEPT ![p] = @ + done.matched]
                        /\ metrics' = ApplyCalls(metrics, done.calls)
                        /\ lastOp' = "Write"
                        /\ UNCHANGED parseErrors
    /\ \/ /\ pc' = [pc EXCEPT ![p] = "select"]
          /\ UNCHANGED crashed
       \/ /\ tail[p] = "nil"
          /\ pc' = [pc EXCEPT ![p] = "panic"]
          /\ crashed' = TRUE
    /\ line' = [line EXCEPT ![p] = NoLine]
    /\ UNCHANGED <<snapResult, peekResult, mark, nsnaps, ctxDone, sigChan,
                   tickC, tail, inflight, dryRun, lastSend, posts, termSent,
                   reads, clientVars>>

\* the select of run takes ctx.Done(), or finds tail.Lines closed: run returns
TailExit(p) ==
    /\ Alive
    /\ pc[p] = "select"
    /\ TailerDone(p)
    /\ pc' = [pc EXCEPT ![p] = "returned"]
    /\ UNCHANGED <<metrics, line, linesParsed, linesMatched, parseErrors,
                   snapResult, peekResult, input, seen, mark, lastOp, nsnaps,
                   runVars, clientVars>>

(* ------------------------ the main loop of Run ------------------------- *)
\* stopTailers: Tailer.Stop on every tailer (cancel(), tail.Stop(),
\* tail.Cleanup(), t.tail = nil), then a.tailers = nil.  Stop does not wait
\* for the run goroutine.
StopTailers == [p \in Procs |-> "nil"]

\* sendSnapshot starts a publication while another one has not returned
TakeTickAsync ==
    /\ Alive
    /\ pc[Main] \in {"select", "send"}
    /\ tickC
    /\ tickC' = FALSE
    /\ snapResult' = Snapshot(metrics).result
    /\ metrics' = Snapshot(metrics).metrics
    /\ mark' = [n \in DOMAIN mark |-> Len(seen[n])]
    /\ lastOp' = "Snapshot"
    /\ nsnaps' = nsnaps + 1
    /\ IF dryRun
       THEN /\ lastSend' = "printed"
            /\ UNCHANGED <<pc, inflight, posts>>
       ELSE /\ pc' = [pc EXCEPT ![Main] = "send"]
            /\ inflight' = inflight + 1
            /\ posts' = posts + 1
            /\ UNCHANGED lastSend
    /\ UNCHANGED <<line, linesParsed, linesMatched, parseErrors, peekResult,
                   input, seen, ctxDone, sigChan, tail, crashed, dryRun,
                   termSent, reads, clientVars>>

\* case <-ticker.C: sendSnapshot takes the Snapshot and, in dry-run mode,
\* prints it and returns; otherwise it calls Sender.SendSnapshot, which
\* posts the snapshot and waits for the answer
TakeTick ==
    /\ Alive
    /\ pc[Main] = "select"
    /\ tickC
    /\ tickC' = FALSE
    /\ snapResult' = Snapshot(metrics).result
    /\ metrics' = Snapshot(metrics).metrics
    /\ mark' = [n \in DOMAIN mark |-> Len(seen[n])]
    /\ lastOp' = "Snapshot"
    /\ nsnaps' = nsnaps + 1
    /\ IF dryRun
       THEN /\ lastSend' = "printed"
            /\ UNCHANGED <<pc, inflight, posts>>
       ELSE /\ pc' = [pc EXCEPT ![Main] = "send"]
            /\ inflight' = inflight + 1
            /\ posts' = posts + 1
            /\ UNCHANGED lastSend
    /\ UNCHANGED <<line, linesParsed, linesMatched, parseErrors, peekResult,
                   input, seen, ctxDone, sigChan, tail, crashed, dryRun,
                   termSent, reads, clientVars>>

\* SendSnapshot returns nil: the server answered 200 or 202
SendOk ==
    /\ Alive
    /\ pc[Main] = "send"
    /\ pc' = [pc EXCEPT ![Main] = "select"]
    /\ inflight' = inflight - 1
    /\ lastSend' = "ok"
    /\ UNCHANGED <<metrics, line, linesParsed, linesMatched, parseErrors,
                   snapResult, peekResult, input, seen, mark, lastOp, nsnaps,
                   ctxDone, sigChan, tickC, tail, crashed, dryRun, posts,
                   termSent, reads, clientVars>>

\* a failed publication that puts the counters of the snapshot back
SendFailsRestores ==
    /\ Alive
    /\ pc[Main] = "send"
    /\ pc' = [pc EXCEPT ![Main] = "select"]
    /\ inflight' = inflight - 1
    /\ lastSend' = "failed"
    /\ metrics' = [n \in DOMAIN metrics |->
                     IF metrics[n].Type = Counter
                     THEN [metrics[n] EXCEPT !.Value = @ + snapResult[n]]
                     ELSE metrics[n]]
    /\ UNCHANGED <<line, linesParsed, linesMatched, parseErrors,
                   snapResult, peekResult, input, seen, mark, lastOp, nsnaps,
                   ctxDone, sigChan, tickC, tail, crashed, dryRun, posts,
                   termSent, reads, clientVars>>

\* SendSnapshot returns an error (the request failed, or the status is not
\* 200 or 202): Run logs it and goes back to its select
SendFails ==
    /\ Alive
    /\ pc[Main] = "send"
    /\ pc' = [pc EXCEPT ![Main] = "select"]
    /\ inflight' = inflight - 1
    /\ lastSend' = "failed"
    /\ UNCHANGED <<metrics, line, linesParsed, linesMatched, parseErrors,
                   snapResult, peekResult, input, seen, mark, lastOp, nsnaps,
                   ctxDone, sigChan, tickC, tail, crashed, dryRun, posts,
                   termSent, reads, clientVars>>

\* a dump that takes a Snapshot instead of a Peek
TakeSignalDumpResets ==
    /\ Alive
    /\ pc[Main] = "select"
    /\ sigChan # <<>>
    /\ sigChan' = Tail(sigChan)
    /\ IF Head(sigChan) = "SIGUSR1"
       THEN /\ peekResult' = Snapshot(metrics).result
            /\ metrics' = Snapshot(metrics).metrics
            /\ pc' = [pc EXCEPT ![Main] = "dump"]
            /\ UNCHANGED tail
       ELSE /\ tail' = StopTailers
            /\ pc' = [pc EXCEPT ![Main] = "returned"]
            /\ UNCHANGED <<peekResult, metrics>>
    /\ UNCHANGED <<line, linesParsed, linesMatched, parseErrors,
                   snapResult, input, seen, mark, lastOp, nsnaps,
                   ctxDone, tickC, crashed, inflight, dryRun, lastSend,
                   posts, termSent, reads, clientVars>>

\* case sig := <-sigChan: SIGUSR1 starts dumpMetrics (the Peek); on SIGTERM
\* and SIGINT, stopTailers, return nil
TakeSignal ==
    /\ Alive
    /\ pc[Main] = "select"
    /\ sigChan # <<>>
    /\ sigChan' = Tail(sigChan)
    /\ IF Head(sigChan) = "SIGUSR1"
       THEN /\ peekResult' = Peek(metrics)
            /\ pc' = [pc EXCEPT ![Main] = "dump"]
            /\ UNCHANGED tail
       ELSE /\ tail' = StopTailers
            /\ pc' = [pc EXCEPT ![Main] = "returned"]
            /\ UNCHANGED peekResult
    /\ UNCHANGED <<metrics, line, linesParsed, linesMatched, parseErrors,
                   snapResult, input, seen, mark, lastOp, nsnaps,
                   ctxDone, tickC, crashed, inflight, dryRun, lastSend,
                   posts, termSent, reads, clientVars>>

\* dumpMetrics prints the map and returns to the select
RunDumpPrint ==
    /\ Alive
    /\ pc[Main] = "dump"
    /\ peekResult' = NoResult
    /\ pc' = [pc EXCEPT ![Main] = "select"]
    /\ UNCHANGED <<metrics, line, linesParsed, linesMatched, parseErrors,
                   snapResult, input, seen, mark, lastOp, nsnaps,
                   runVars, clientVars>>

\* case <-ctx.Done(): stopTailers, return nil
TakeCtxDone ==
    /\ Alive
    /\ pc[Main] = "select"
    /\ ctxDone
    /\ tail' = StopTailers
    /\ pc' = [pc EXCEPT ![Main] = "returned"]
    /\ UNCHANGED <<metrics, line, linesParsed, linesMatched, parseErrors,
                   snapResult, peekResult, input, seen, mark, lastOp, nsnaps,
                   ctxDone, sigChan, tickC, crashed, inflight, dryRun, lastSend,
                   posts, termSent, reads, clientVars>>

NextRun ==
    \/ Cancel
    \/ \E s \in Signals : Signal(s)
    \/ Tick
    \/ \E p \in Procs : \E r \in Reads(p[2]) : TailRecv(p, r)
    \/ \E p \in Procs : TailCall(p)
    \/ \E p \in Procs : TailExit(p)
    \/ TakeTick
    \/ SendOk
    \/ SendFails
    \/ TakeSignal
    \/ RunDumpPrint
    \/ TakeCtxDone

SpecRun == InitRun /\ [][NextRun]_vars

\* Run and the tailers with a scheduler that lets every goroutine that can
\* take a step take one, and a select that does not ignore for ever a case
\* that is ready again and again
SpecRunFair ==
    /\ InitRun
    /\ [][NextRun]_vars
    /\ WF_vars(SendOk \/ SendFails)
    /\ WF_vars(RunDumpPrint)
    /\ SF_vars(TakeTick)
    /\ SF_vars(TakeSignal)
    /\ SF_vars(TakeCtxDone)
    /\ \A p \in Procs : []<>(~(Alive /\ pc[p] = "handle"))
    /\ \A p \in Procs : SF_vars(TailExit(p))

(***************************************************************************)
(* A Tailer driven by a client that calls Start, StartFromBeginning and    *)
(* Stop one call at a time (each holds t.mu from its entry to its return), *)
(* with the file at its path and the run goroutines it starts.  A run      *)
(* goroutine is followed only from its start to its return.                *)
(***************************************************************************)
NoErr == "nil"
ErrRunning == "tailer already running"
ErrNoFile == "file does not exist"
ErrTailing == "tailing file"
\* a non-nil error of tail.Stop()
ErrStop == "tail stopped with an error"

StartOps == {"Start", "StartFromBeginning"}

\* tail.SeekInfo.Whence: io.SeekEnd in Start, io.SeekStart in StartFromBeginning
Whence(op) == IF op = "Start" THEN "SeekEnd" ELSE "SeekStart"

\* the aggregator, its clients and the main loop of Run, at rest
InitRest ==
    /\ InitCore
    /\ metrics = NewAggregator
    /\ pc = [t \in Threads |-> "idle"]
    /\ seen = [n \in {} |-> <<>>]
    /\ mark = [n \in {} |-> 0]

\* t := tailer.New(path, handler, logger), the file existing or not
InitTailer ==
    /\ InitRest
    /\ dryRun = FALSE
    /\ \E exists \in BOOLEAN :
          unit = [kind |-> "tailer",
                  tailer |-> [tail |-> NoTail, cancel |-> NoCancel],
                  tails |-> <<>>, runs |-> <<>>, fileExists |-> exists,
                  tRet |-> NoRet]

\* the call op returns err; idle tells whether t.tail was nil on entry
TailerRet(op, err) ==
    [op |-> op, err |-> err, n |-> tRet.n + 1, idle |-> tailer.tail = NoTail]

\* Start that stops nothing and checks nothing: it tails the file again
TailerStartAgain(op, tailFileOk) ==
    /\ tRet.n < MaxCalls
    /\ unit' = [unit EXCEPT
                  !.tails = Append(tails, [whence |-> Whence(op), state |-> "open"]),
                  !.runs = Append(runs, [ctxDone |-> FALSE, state |-> "running"]),
                  !.tailer = [tail |-> Len(tails) + 1, cancel |-> Len(runs) + 1],
                  !.tRet = TailerRet(op, NoErr)]
    /\ UNCHANGED coreVars

\* Start and StartFromBeginning; tailFileOk tells whether tail.TailFile
\* succeeds on a file that os.Stat has found
TailerStart(op, tailFileOk) ==
    /\ tRet.n < MaxCalls
    /\ IF tailer.tail # NoTail
       THEN unit' = [unit EXCEPT !.tRet = TailerRet(op, ErrRunning)]
       ELSE IF ~fileExists
       THEN unit' = [unit EXCEPT !.tRet = TailerRet(op, ErrNoFile)]
       ELSE IF ~tailFileOk
       THEN unit' = [unit EXCEPT !.tRet = TailerRet(op, ErrTailing)]
       ELSE unit' = [unit EXCEPT
                  !.tails = Append(tails, [whence |-> Whence(op), state |-> "open"]),
                  !.runs = Append(runs, [ctxDone |-> FALSE, state |-> "running"]),
                  !.tailer = [tail |-> Len(tails) + 1, cancel |-> Len(runs) + 1],
                  !.tRet = TailerRet(op, NoErr)]
    /\ UNCHANGED coreVars

\* Stop that refuses a tailer that is not running
TailerStopNotRunningFails(stopErr) ==
    /\ tRet.n < MaxCalls
    /\ unit' = [unit EXCEPT
                  !.runs = IF tailer.cancel # NoCancel
                           THEN [runs EXCEPT ![tailer.cancel].ctxDone = TRUE] ELSE runs,
                  !.tails = IF tailer.tail # NoTail
                            THEN [tails EXCEPT ![tailer.tail].state = "stopped"] ELSE tails,
                  !.tailer = [tail |-> NoTail, cancel |-> NoCancel],
                  !.tRet = TailerRet("Stop", IF tailer.tail # NoTail THEN stopErr
                                             ELSE ErrStop)]
    /\ UNCHANGED coreVars

\* Stop: cancel() and t.cancel = nil when t.cancel is set; tail.Stop(),
\* tail.Cleanup() and t.tail = nil when t.tail is set, returning the error
\* stopErr of tail.Stop(); nil otherwise
TailerStop(stopErr) ==
    /\ tRet.n < MaxCalls
    /\ unit' = [unit EXCEPT
                  !.runs = IF tailer.cancel # NoCancel
                           THEN [runs EXCEPT ![tailer.cancel].ctxDone = TRUE] ELSE runs,
                  !.tails = IF tailer.tail # NoTail
                            THEN [tails EXCEPT ![tailer.tail].state = "stopped"] ELSE tails,
                  !.tailer = [tail |-> NoTail, cancel |-> NoCancel],
                  !.tRet = TailerRet("Stop", IF tailer.tail # NoTail THEN stopErr
                                             ELSE NoErr)]
    /\ UNCHANGED coreVars

\* run takes ctx.Done() and returns
TailerRunExit(k) ==
    /\ runs[k].state = "running"
    /\ runs[k].ctxDone
    /\ unit' = [unit EXCEPT !.runs[k].state = "returned"]
    /\ UNCHANGED coreVars

\* the file at the path is created or removed
FileChange ==
    /\ unit' = [unit EXCEPT !.fileExists = ~fileExists]
    /\ UNCHANGED coreVars

NextTailer ==
    \/ \E op \in StartOps : \E tailFileOk \in BOOLEAN : TailerStart(op, tailFileOk)
    \/ \E stopErr \in {NoErr, ErrStop} : TailerStop(stopErr)
    \/ \E k \in 1..Len(runs) : TailerRunExit(k)
    \/ FileChange

SpecTailer == InitTailer /\ [][NextTailer]_vars

(***************************************************************************)
(* Agent.Run from its entry to its main loop, called by several callers    *)
(* on one agent: the running flag, the identity, the registration and the  *)
(* activation with the collector, the start of the tailers.  The main loop *)
(* is followed only as far as its snapshots and its return.                *)
(***************************************************************************)
ErrAlreadyRunning == "agent already running"
ErrIdentity == "loading identity"
ErrRegistering == "registering with server"
ErrStartTailer == "starting tailer"

\* what the collector answers to a request: a status, or NoResponse when
\* client.Do fails
NoResponse == 0
Statuses == {NoResponse, 200, 201, 500}
\* Register takes 200 and 201 as success, activate only 200
RegisterOk(status) == status \in {200, 201}
ActivateOk(status) == status = 200

\* Run returns err to the caller c
RunReturns(c, err) == [callers EXCEPT ![c] = [pc |-> "returned", ret |-> err]]
\* the caller c goes on to the step at
RunGoes(c, at) == [callers EXCEPT ![c].pc = at]

\* a := agent.New(opts), in dry-run mode or not; nobody has called Run
InitStart ==
    /\ InitRest
    /\ dryRun \in BOOLEAN
    /\ unit = [kind |-> "start", aRunning |-> FALSE, aSender |-> "nil",
               aTailers |-> 0,
               callers |-> [c \in Callers |-> [pc |-> "idle", ret |-> "none"]],
               effects |-> NoEffects, late |-> 0]

\* the call of Run that set a.running has returned
RunIsOver ==
    \E d \in Callers :
        callers[d].pc = "returned" /\ callers[d].ret # ErrAlreadyRunning

\* Run that does not look at a.running
RunEnterUnchecked(c) ==
    /\ callers[c].pc = "idle"
    /\ unit' = [unit EXCEPT !.aRunning = TRUE, !.callers = RunGoes(c, "identity")]
    /\ UNCHANGED coreVars

\* Run, under a.mu: an agent that is running refuses the call, any other
\* agent becomes running
RunEnter(c) ==
    /\ callers[c].pc = "idle"
    /\ IF aRunning
       THEN unit' = [unit EXCEPT !.callers = RunReturns(c, ErrAlreadyRunning),
                                 !.late = @ + (IF RunIsOver THEN 1 ELSE 0)]
       ELSE unit' = [unit EXCEPT !.aRunning = TRUE,
                                 !.callers = RunGoes(c, "identity")]
    /\ UNCHANGED coreVars

\* identity.LoadOrGenerate, which succeeds (ok) or not; then, unless
\* dry-run, a.sender = sender.New(...)
RunLoadIdentity(c, ok) ==
    /\ callers[c].pc = "identity"
    /\ IF ~ok
       THEN unit' = [unit EXCEPT !.effects.loads = @ + 1,
                                 !.callers = RunReturns(c, ErrIdentity)]
       ELSE IF dryRun
       THEN unit' = [unit EXCEPT !.effects.loads = @ + 1,
                                 !.callers = RunGoes(c, "tailers")]
       ELSE unit' = [unit EXCEPT !.effects.loads = @ + 1,
                                 !.callers = RunGoes(c, "register"),
                                 !.aSender = "new"]
    /\ UNCHANGED coreVars

\* a failed registration that is only logged
RunRegisterLogsFailure(c, status) ==
    /\ callers[c].pc = "register"
    /\ IF RegisterOk(status)
       THEN unit' = [unit EXCEPT !.effects.registers = @ + 1,
                                 !.aSender = "registered",
                                 !.callers = RunGoes(c, "activate")]
       ELSE unit' = [unit EXCEPT !.effects.registers = @ + 1,
                                 !.effects.failed = "register",
                                 !.callers = RunGoes(c, "tailers")]
    /\ UNCHANGED coreVars

\* Sender.Register: the POST to /v1/register; on an error or a status other
\* than 200 and 201 Run returns the error, else s.registered = true and
\* activate follows
RunRegister(c, status) ==
    /\ callers[c].pc = "register"
    /\ IF RegisterOk(status)
       THEN unit' = [unit EXCEPT !.effects.registers = @ + 1,
                                 !.aSender = "registered",
                                 !.callers = RunGoes(c, "activate")]
       ELSE unit' = [unit EXCEPT !.effects.registers = @ + 1,
                                 !.effects.failed = "register",
                                 !.callers = RunReturns(c, ErrRegistering)]
    /\ UNCHANGED coreVars

\* Sender.activate: the POST to /v1/activate; on an error or a status other
\* than 200 Register and Run return the error
RunActivate(c, status) ==
    /\ callers[c].pc = "activate"
    /\ IF ActivateOk(status)
       THEN unit' = [unit EXCEPT !.effects.activates = @ + 1,
                                 !.callers = RunGoes(c, "tailers")]
       ELSE unit' = [unit EXCEPT !.effects.activates = @ + 1,
                                 !.effects.failed = "activate",
                                 !.callers = RunReturns(c, ErrRegistering)]
    /\ UNCHANGED coreVars

\* the loop over a.processors: tailer.New and t.Start, which succeeds (ok)
\* or not; on a failure stopTailers and Run returns the error
RunStartTailer(c, ok) ==
    /\ callers[c].pc = "tailers"
    /\ IF ok
       THEN unit' = [unit EXCEPT !.aTailers = @ + 1,
                                 !.effects.starts = @ + 1,
                                 !.callers = IF aTailers + 1 = Len(Sources)
                                             THEN RunGoes(c, "loop") ELSE callers]
       ELSE unit' = [unit EXCEPT !.aTailers = 0,
                                 !.callers = RunReturns(c, ErrStartTailer)]
    /\ UNCHANGED coreVars

\* the main loop takes a tick: sendSnapshot
RunLoopTick(c) ==
    /\ callers[c].pc = "loop"
    /\ effects.snaps < MaxTicks
    /\ unit' = [unit EXCEPT !.effects.snaps = @ + 1]
    /\ UNCHANGED coreVars

\* Run that clears a.running when it leaves its main loop
RunLoopReturnClears(c) ==
    /\ callers[c].pc = "loop"
    /\ unit' = [unit EXCEPT !.aTailers = 0, !.aRunning = FALSE,
                            !.callers = RunReturns(c, NoErr)]
    /\ UNCHANGED coreVars

\* the main loop takes ctx.Done() or a termination signal: stopTailers,
\* return nil
RunLoopReturn(c) ==
    /\ callers[c].pc = "loop"
    /\ unit' = [unit EXCEPT !.aTailers = 0, !.callers = RunReturns(c, NoErr)]
    /\ UNCHANGED coreVars

NextStart ==
    \/ \E c \in Callers : RunEnter(c)
    \/ \E c \in Callers : \E ok \in BOOLEAN : RunLoadIdentity(c, ok)
    \/ \E c \in Callers : \E status \in Statuses : RunRegister(c, status)
    \/ \E c \in Callers : \E status \in Statuses : RunActivate(c, status)
    \/ \E c \in Callers : \E ok \in BOOLEAN : RunStartTailer(c, ok)
    \/ \E c \in Callers : RunLoopTick(c)
    \/ \E c \in Callers : RunLoopReturn(c)

SpecStart == InitStart /\ [][NextStart]_vars

(***************************************************************************)
(* Two agents built from the same configuration, one in dry-run mode and   *)
(* one in live mode, whose tailers deliver the same lines and whose        *)
(* tickers fire at the same points.                                        *)
(***************************************************************************)
Modes == {"dry", "live"}

\* processLine of p on the line l, on the registry ms
ProcessLineOn(ms, p, l) ==
    LET data == Parse(SourceOf(p).Format, l)
    IN  IF ParseFailed(data) THEN ms
        ELSE ApplyCalls(ms, CallsFor(ProcMetrics(p), data))

\* sendSnapshot that prints a Peek in dry-run mode
SendSnapshotPeeksInDryRun(mode, ms, sendOk) ==
    IF mode = "dry"
    THEN [metrics |-> ms, result |-> Peek(ms), outcome |-> "printed"]
    ELSE [metrics |-> Snapshot(ms).metrics,
          result |-> Snapshot(ms).result,
          outcome |-> IF sendOk THEN "ok" ELSE "failed"]

\* sendSnapshot in the given mode on the registry ms: the Snapshot, then
\* the print in dry-run mode, and in live mode Sender.SendSnapshot, which
\* succeeds (sendOk) or not
SendSnapshotIn(mode, ms, sendOk) ==
    [metrics |-> Snapshot(ms).metrics,
     result |-> Snapshot(ms).result,
     outcome |-> IF mode = "dry" THEN "printed"
                 ELSE IF sendOk THEN "ok" ELSE "failed"]

\* agent.New twice, with DryRun true and false
InitTwin ==
    /\ InitRest
    /\ dryRun = FALSE
    /\ unit = [kind |-> "twin",
               twin |-> [m \in Modes |-> RegisterSources(NewAggregator, Sources)],
               twinOut |-> [m \in Modes |-> [result |-> NoResult, outcome |-> "none"]],
               twinN |-> [lines |-> 0, ticks |-> 0]]

\* the tailer of the source of p hands the line l to processLine, in both agents
TwinLine(p, l) ==
    /\ twinN.lines < MaxLines
    /\ unit' = [unit EXCEPT
                  !.twinN.lines = @ + 1,
                  !.twin = [m \in Modes |-> ProcessLineOn(twin[m], p, l)]]
    /\ UNCHANGED coreVars

\* the ticker fires in both agents: sendSnapshot
TwinTick(sendOk) ==
    /\ twinN.ticks < MaxTicks
    /\ unit' = [unit EXCEPT
                  !.twinN.ticks = @ + 1,
                  !.twin = [m \in Modes |-> SendSnapshotIn(m, twin[m], sendOk).metrics],
                  !.twinOut = [m \in Modes |->
                     [result |-> SendSnapshotIn(m, twin[m], sendOk).result,
                      outcome |-> SendSnapshotIn(m, twin[m], sendOk).outcome]]]
    /\ UNCHANGED coreVars

NextTwin ==
    \/ \E p \in Procs : \E l \in Lines(p[2]) : TwinLine(p, l)
    \/ \E sendOk \in BOOLEAN : TwinTick(sendOk)

SpecTwin == InitTwin /\ [][NextTwin]_vars

(***************************************************************************)
(* Configuration loading: config.Parse (decode, setDefaults, Validate) on  *)
(* a bounded family of configuration documents, then agent.New on the      *)
(* configurations Parse accepts.  Durations are in milliseconds.           *)
(***************************************************************************)
Second == 1000

Minute == 60 * Second

\* a pattern regexp.Compile rejects
BadRegex == "("

\* regexp.Compile on the patterns of the model
RegexCompiles(re) == re = Status5xx

EndsWith(s, suffix) ==
    Len(s) >= Len(suffix) /\ SubSeq(s, Len(s) - Len(suffix) + 1, Len(s)) = suffix

\* the decoding of the interval scalar into a time.Duration: an optional
\* sign, decimal digits and one of the units ms, s, m; <<ok, milliseconds>>
ParseDuration(s) ==
    LET neg == Len(s) > 0 /\ s[1] = "-"
        body == IF neg THEN Tail(s) ELSE s
        u == IF EndsWith(body, <<"m", "s">>) THEN <<2, 1>>
             ELSE IF EndsWith(body, <<"s">>) THEN <<1, Second>>
             ELSE IF EndsWith(body, <<"m">>) THEN <<1, Minute>>
             ELSE <<0, 0>>
        digits == SubSeq(body, 1, Len(body) - u[1])
    IN  IF u[1] > 0 /\ AllDigits(digits)
        THEN <<TRUE, (IF neg THEN 0 - 1 ELSE 1) * DigitsValue(digits) * u[2]>>
        ELSE <<FALSE, 0>>

\* the interval key of a document: left out, or written with a text
NoInterval == [present |-> FALSE, text |-> <<>>]
IntervalText(text) == [present |-> TRUE, text |-> text]

\* config.Config, as decoded
ConfigOf(url, name, version, interval, sources) ==
    [ServerURL |-> url, AppName |-> name, AppVersion |-> version,
     Interval |-> interval, Sources |-> sources]

\* the nil *Config that Parse returns with an error
NilConfig == ConfigOf("", "", "", 0, <<>>)

\* yaml.Unmarshal into Config: a key left out keeps the zero value of its
\* field; <<ok, cfg>>
Unmarshal(doc) ==
    LET d == IF doc.Interval.present THEN ParseDuration(doc.Interval.text)
             ELSE <<TRUE, 0>>
    IN  IF d[1]
        THEN <<TRUE, ConfigOf(doc.ServerURL, doc.AppName, doc.AppVersion, d[2],
                              doc.Sources)>>
        ELSE <<FALSE, NilConfig>>

\* Config.setDefaults, the interval part
SetDefaults(c) ==
    IF c.Interval = 0 THEN [c EXCEPT !.Interval = 60 * Second] ELSE c

\* the number of conditions Match.Validate counts
Conditions(m) ==
    (IF m.Equals # <<>> THEN 1 ELSE 0) + (IF m.In # {} THEN 1 ELSE 0)
    + (IF m.Regex # "" THEN 1 ELSE 0) + (IF m.Contains # <<>> THEN 1 ELSE 0)

\* Match.Validate without the upper limit on the number of conditions
MatchValidateAllowsMany(m) ==
    IF m.Field = <<>> THEN "field is required"
    ELSE IF Conditions(m) = 0 THEN "at least one condition (equals, in, regex, contains) is required"
    ELSE IF m.Regex # "" /\ ~RegexCompiles(m.Regex) THEN "invalid regex"
    ELSE NoErr

\* Match.Validate
MatchValidate(m) ==
    IF m.Field = <<>> THEN "field is required"
    ELSE IF Conditions(m) = 0 THEN "at least one condition (equals, in, regex, contains) is required"
    ELSE IF Conditions(m) > 1 THEN "only one condition (equals, in, regex, contains) is allowed"
    ELSE IF m.Regex # "" /\ ~RegexCompiles(m.Regex) THEN "invalid regex"
    ELSE NoErr

ValidTypes == {Counter, Gauge, Sum, Set}

\* Metric.Validate
MetricValidate(m) ==
    IF m.Name = "" THEN "name is required"
    ELSE IF m.Type \notin ValidTypes THEN "type must be one of: counter, gauge, sum, set"
    ELSE IF m.Type \in {Sum, Gauge, Set} /\ ~m.Extract.present THEN "extract is required for type"
    ELSE IF m.Match.present THEN MatchValidate(m.Match)
    ELSE NoErr

\* the loop over s.Metrics: the error of the first metric that fails
RECURSIVE MetricsValidate(_)
MetricsValidate(ms) ==
    IF Len(ms) = 0 THEN NoErr
    ELSE IF MetricValidate(Head(ms)) # NoErr THEN MetricValidate(Head(ms))
    ELSE MetricsValidate(Tail(ms))

\* Source.Validate
SourceValidate(s) ==
    IF s.Path = "" THEN "path is required"
    ELSE IF s.Format = "" THEN "format is required"
    ELSE IF s.Format \notin {"json", "regex"} THEN "format must be 'json' or 'regex'"
    ELSE IF s.Format = "regex" /\ s.Pattern = "" THEN "pattern is required for regex format"
    ELSE IF s.Format = "regex" /\ ~RegexCompiles(s.Pattern) THEN "invalid regex"
    ELSE IF Len(s.Metrics) = 0 THEN "at least one metric is required"
    ELSE MetricsValidate(s.Metrics)

\* the loop over c.Sources: the error of the first source that fails
RECURSIVE SourcesValidate(_)
SourcesValidate(srcs) ==
    IF Len(srcs) = 0 THEN NoErr
    ELSE IF SourceValidate(Head(srcs)) # NoErr THEN SourceValidate(Head(srcs))
    ELSE SourcesValidate(Tail(srcs))

\* Config.Validate
ConfigValidate(c) ==
    IF c.ServerURL = "" THEN "server_url is required"
    ELSE IF c.AppName = "" THEN "app_name is required"
    ELSE IF c.AppVersion = "" THEN "app_version is required"
    ELSE IF c.Interval < Second THEN "interval must be at least 1 second"
    ELSE IF Len(c.Sources) = 0 THEN "at least one source is required"
    ELSE SourcesValidate(c.Sources)

\* config.Parse: [err, cfg]
ParseConfig(doc) ==
    LET u == Unmarshal(doc)
        c == SetDefaults(u[2])
    IN  IF ~u[1] THEN [err |-> "parsing YAML", cfg |-> NilConfig]
        ELSE IF ConfigValidate(c) # NoErr
             THEN [err |-> ConfigValidate(c), cfg |-> NilConfig]
        ELSE [err |-> NoErr, cfg |-> c]

\* newSourceProcessor: the rules of one source with their matchers
SourceMetrics(s) ==
    [i \in 1..Len(s.Metrics) |->
        [cfg |-> s.Metrics[i], matcher |-> NewMatcher(s.Metrics[i].Match)]]

\* agent.New: the aggregator with every metric registered, and the
\* processors, one per source
NewAgent(c) ==
    [aggregator |-> RegisterSources(NewAggregator, c.Sources),
     processors |-> [i \in 1..Len(c.Sources) |-> SourceMetrics(c.Sources[i])]]

NilAgent == [aggregator |-> NewAggregator, processors |-> <<>>]

\* the documents: the interval key in every form, one or two metrics in one
\* or two sources, every combination of match conditions and extract blocks
IntervalKeys ==
    { NoInterval,
      IntervalText(<<"0", "s">>), IntervalText(<<"5", "0", "0", "m", "s">>),
      IntervalText(<<"1", "s">>), IntervalText(<<"-", "1", "s">>),
      IntervalText(<<"1", "m">>), IntervalText(<<"s">>) }

MatchBlocks ==
    {NoMatch, MatchCfg(<<"status">>, <<>>, {}, BadRegex, <<>>)} \cup
    { MatchCfg(f, e, i, r, c) :
        f \in {<<>>, <<"event">>}, e \in {<<>>, SRequest},
        i \in {{}, {SRequest}}, r \in {"", Status5xx}, c \in {<<>>, <<"e">>} }

ExtractBlocks == {NoExtract, ExtractCfg(<<>>), ExtractCfg(<<"bytes">>)}

FirstMetrics ==
    { MetricCfg(n, t, m, e) :
        n \in {"hits"}, t \in ValidTypes \cup {"histogram"},
        m \in MatchBlocks, e \in ExtractBlocks }
    \cup {MetricCfg("", Counter, NoMatch, NoExtract)}

SecondMetrics ==
    { MetricCfg(n, Counter, NoMatch, NoExtract) : n \in {"hits", "users"} }
    \cup { MetricCfg(n, Gauge, NoMatch, ExtractCfg(<<"bytes">>)) : n \in {"hits", "users"} }

SourceCfg(path, format, pattern, ms) ==
    [Path |-> path, Format |-> format, Pattern |-> pattern, Metrics |-> ms]

JSONSource(path, ms) == SourceCfg(path, "json", "", ms)

SourceLists ==
    { <<>>, <<JSONSource("/var/log/a.log", <<>>)>>,
      <<JSONSource("", <<MetricCfg("hits", Counter, NoMatch, NoExtract)>>)>>,
      <<SourceCfg("/var/log/a.log", "regex", "",
                  <<MetricCfg("hits", Counter, NoMatch, NoExtract)>>)>>,
      <<SourceCfg("/var/log/a.log", "xml", "",
                  <<MetricCfg("hits", Counter, NoMatch, NoExtract)>>)>> }
    \cup { <<JSONSource("/var/log/a.log", <<m>>)>> : m \in FirstMetrics }
    \cup { <<JSONSource("/var/log/a.log", <<m1, m2>>)>> :
             m1 \in FirstMetrics, m2 \in SecondMetrics }
    \cup { <<JSONSource("/var/log/a.log", <<m1>>), JSONSource("/var/log/b.log", <<m2>>)>> :
             m1 \in FirstMetrics, m2 \in SecondMetrics }

Documents ==
    { [ServerURL |-> url, AppName |-> "app", AppVersion |-> "1.0",
       Interval |-> iv, Sources |-> srcs] :
        url \in {"", "http://shm"}, iv \in IntervalKeys, srcs \in SourceLists }

\* the document given to Parse, what Parse returned and what New built
conf == unit.conf

InitConf ==
    /\ InitRest
    /\ dryRun = FALSE
    /\ \E doc \in Documents :
          unit = [kind |-> "conf",
                  conf |-> [stage |-> "text", doc |-> doc, err |-> NoErr,
                            cfg |-> NilConfig, agent |-> NilAgent]]

\* config.Parse on the document
ConfParse ==
    /\ conf.stage = "text"
    /\ LET r == ParseConfig(conf.doc) IN
       unit' = [unit EXCEPT !.conf.stage = "parsed", !.conf.err = r.err,
                            !.conf.cfg = r.cfg]
    /\ UNCHANGED coreVars

\* agent.New on the configuration Parse returned
ConfNew ==
    /\ conf.stage = "parsed"
    /\ conf.err = NoErr
    /\ unit' = [unit EXCEPT !.conf.stage = "built",
                            !.conf.agent = NewAgent(conf.cfg)]
    /\ UNCHANGED coreVars

NextConf == ConfParse \/ ConfNew

SpecConf == InitConf /\ [][NextConf]_vars

(***************************************************************************)
(* ProcessReader and its LineScanner on a reader of a bounded family.  The *)
(* content of the reader is the list of its lines, each given by the       *)
(* number of its bytes before the newline; the last line may lack its      *)
(* newline, and the reader ends with io.EOF or with another error.  Scan   *)
(* reads byte by byte; the model takes the bytes of one line at once.      *)
(***************************************************************************)
MaxScanLines == 3

\* the limit on len(s.buf)
MaxLineBytes == 1024 * 1024

ErrTooLong == "line too long"
ErrRead == "read error"
\* fmt.Errorf("reading: %w", err)
Reading(err) == <<"reading", err>>

LineBytes == {0, 1, MaxLineBytes - 1, MaxLineBytes, MaxLineBytes + 1, 2 * MaxLineBytes}

\* the lines of a reader: every line but the last ends with a newline, a
\* last line without newline is not empty
RECURSIVE LinesUpTo(_)
LinesUpTo(n) ==
    IF n = 0 THEN {<<>>}
    ELSE LinesUpTo(n - 1) \cup
         { Append(ls, [len |-> b, nl |-> TRUE]) :
             ls \in {l \in LinesUpTo(n - 1) : Len(l) = n - 1}, b \in LineBytes }

Readers ==
    { [lines |-> ls, end |-> e] : ls \in LinesUpTo(MaxScanLines), e \in {"EOF", "error"} }
    \cup { [lines |-> [ls EXCEPT ![Len(ls)].nl = FALSE], end |-> e] :
             ls \in {l \in LinesUpTo(MaxScanLines) : Len(l) > 0 /\ l[Len(l)].len > 0},
             e \in {"EOF", "error"} }

Limits == {0, 1, 2}

\* Scan that refuses a line as soon as the buffer holds MaxLineBytes bytes
ScanFullBufferFails(rest, end) ==
    IF Len(rest) = 0
    THEN [ok |-> FALSE, len |-> 0, rest |-> rest,
          err |-> IF end = "error" THEN ErrRead ELSE NoErr]
    ELSE IF Head(rest).len >= MaxLineBytes
    THEN [ok |-> FALSE, len |-> 0, err |-> ErrTooLong,
          rest |-> <<[Head(rest) EXCEPT !.len = @ - MaxLineBytes]>> \o Tail(rest)]
    ELSE IF Head(rest).nl
    THEN [ok |-> TRUE, len |-> Head(rest).len, rest |-> Tail(rest), err |-> NoErr]
    ELSE IF end = "error"
    THEN [ok |-> FALSE, len |-> 0, rest |-> Tail(rest), err |-> ErrRead]
    ELSE [ok |-> TRUE, len |-> Head(rest).len, rest |-> Tail(rest), err |-> NoErr]

\* LineScanner.Scan on what is left of the reader: the bytes up to the
\* newline are the line; the byte that makes the buffer longer than
\* MaxLineBytes stops the scan with an error; at io.EOF a buffer that is not
\* empty is the last line; any other error of the reader stops the scan
Scan(rest, end) ==
    IF Len(rest) = 0
    THEN [ok |-> FALSE, len |-> 0, rest |-> rest,
          err |-> IF end = "error" THEN ErrRead ELSE NoErr]
    ELSE IF Head(rest).len > MaxLineBytes
    THEN [ok |-> FALSE, len |-> 0, err |-> ErrTooLong,
          rest |-> <<[Head(rest) EXCEPT !.len = @ - (MaxLineBytes + 1)]>> \o Tail(rest)]
    ELSE IF Head(rest).nl
    THEN [ok |-> TRUE, len |-> Head(rest).len, rest |-> Tail(rest), err |-> NoErr]
    ELSE IF end = "error"
    THEN [ok |-> FALSE, len |-> 0, rest |-> Tail(rest), err |-> ErrRead]
    ELSE [ok |-> TRUE, len |-> Head(rest).len, rest |-> Tail(rest), err |-> NoErr]

\* the reader, the limit, and ProcessReader at work: what is left to read,
\* the lines given to the handler, count, scanner.Err(), the returned pair
scan == unit.scan

\* ProcessReader(r, handler, limit) is called
InitScan ==
    /\ InitRest
    /\ dryRun = FALSE
    /\ \E r \in Readers : \E limit \in Limits :
          unit = [kind |-> "scan",
                  scan |-> [reader |-> r, limit |-> limit, pc |-> "loop",
                            rest |-> r.lines, handled |-> <<>>, count |-> 0,
                            err |-> NoErr, ret |-> [count |-> 0, err |-> NoErr]]]

\* a loop that tests the limit one line late
ProcessReaderScanLateLimit ==
    /\ scan.pc = "loop"
    /\ LET r == Scan(scan.rest, scan.reader.end) IN
       IF ~r.ok
       THEN unit' = [unit EXCEPT !.scan.rest = r.rest, !.scan.err = r.err,
                                 !.scan.pc = "done"]
       ELSE IF scan.limit > 0 /\ scan.count > scan.limit
       THEN unit' = [unit EXCEPT !.scan.rest = r.rest, !.scan.pc = "done"]
       ELSE unit' = [unit EXCEPT !.scan.rest = r.rest,
                                 !.scan.handled = Append(@, r.len),
                                 !.scan.count = @ + 1]
    /\ UNCHANGED coreVars

\* one turn of the loop: scanner.Scan(), the test of the limit, the handler
ProcessReaderScan ==
    /\ scan.pc = "loop"
    /\ LET r == Scan(scan.rest, scan.reader.end) IN
       IF ~r.ok
       THEN unit' = [unit EXCEPT !.scan.rest = r.rest, !.scan.err = r.err,
                                 !.scan.pc = "done"]
       ELSE IF scan.limit > 0 /\ scan.count >= scan.limit
       THEN unit' = [unit EXCEPT !.scan.rest = r.rest, !.scan.pc = "done"]
       ELSE unit' = [unit EXCEPT !.scan.rest = r.rest,
                                 !.scan.handled = Append(@, r.len),
                                 !.scan.count = @ + 1]
    /\ UNCHANGED coreVars

\* after the loop: the count, with the error of the scanner if it has one
ProcessReaderReturn ==
    /\ scan.pc = "done"
    /\ unit' = [unit EXCEPT
                  !.scan.pc = "returned",
                  !.scan.ret = [count |-> scan.count,
                                err |-> IF scan.err # NoErr THEN Reading(scan.err)
                                        ELSE NoErr]]
    /\ UNCHANGED coreVars

NextScan == ProcessReaderScan \/ ProcessReaderReturn

SpecScan == InitScan /\ [][NextScan]_vars

(***************************************************************************)
(* The identity file: identity.Load, Generate, Save and LoadOrGenerate on  *)
(* one path, called by Agent.Run and by later starts of the program.  A    *)
(* key is a sequence of bytes, its stored form the hexadecimal text of     *)
(* these bytes.                                                            *)
(***************************************************************************)
\* ed25519.PrivateKeySize and ed25519.PublicKeySize
PrivateKeySize == 64
PublicKeySize == 32

\* how many times the program is started again on the path
MaxLoads == 3

HexDigits == <<"0", "1", "2", "3", "4", "5", "6", "7",
               "8", "9", "a", "b", "c", "d", "e", "f">>
UpperHexDigits == <<"0", "1", "2", "3", "4", "5", "6", "7",
                    "8", "9", "A", "B", "C", "D", "E", "F">>

\* EncodeToString that writes the low half of each byte first
HexEncodeLowFirst(bytes) ==
    [i \in 1..(2 * Len(bytes)) |->
        LET b == bytes[(i + 1) \div 2]
        IN  IF i % 2 = 1 THEN HexDigits[(b % 16) + 1] ELSE HexDigits[(b \div 16) + 1]]

\* hex.EncodeToString: two lower-case digits per byte, the high half first
HexEncode(bytes) ==
    [i \in 1..(2 * Len(bytes)) |->
        LET b == bytes[(i + 1) \div 2]
        IN  IF i % 2 = 1 THEN HexDigits[(b \div 16) + 1] ELSE HexDigits[(b % 16) + 1]]

\* the value of each hexadecimal digit, in both cases of the letters
HexValues ==
    [ch \in {HexDigits[v] : v \in 1..16} \cup {UpperHexDigits[v] : v \in 1..16} |->
        (CHOOSE v \in 1..16 : HexDigits[v] = ch \/ UpperHexDigits[v] = ch) - 1]

IsHexDigit(ch) == ch \in DOMAIN HexValues

HexValue(ch) == HexValues[ch]

\* hex.DecodeString: <<ok, bytes>>; a text of odd length or with a character
\* that is no hexadecimal digit is an error, both cases of the letters are
\* taken
HexDecode(text) ==
    IF Len(text) % 2 = 0 /\ \A i \in 1..Len(text) : IsHexDigit(text[i])
    THEN <<TRUE, [i \in 1..(Len(text) \div 2) |->
                    16 * HexValue(text[2 * i - 1]) + HexValue(text[2 * i])]>>
    ELSE <<FALSE, <<>>>>

\* the key pair ed25519.GenerateKey draws: the private key is the seed
\* followed by the public key, the public key is a function of the seed
Seeds == {1, 2}
SeedBytes(s) == [i \in 1..(PrivateKeySize - PublicKeySize) |-> (s * 16 + i) % 256]
PublicOf(s) == [i \in 1..PublicKeySize |-> (s * 97 + 3 * i) % 256]
PrivateOf(s) == SeedBytes(s) \o PublicOf(s)

\* the identifiers generateUUID draws
UUIDs == {"0b1e-a", "77c2-b"}

\* sender.Identity, and the nil identity returned with an error
IdentityOf(uuid, priv, pub, privHex, pubHex) ==
    [InstanceID |-> uuid, PrivateKey |-> priv, PublicKey |-> pub,
     PrivKeyHex |-> privHex, PubKeyHex |-> pubHex]
NilIdentity == IdentityOf("", <<>>, <<>>, <<>>, <<>>)

\* the file at the path: absent, present and unreadable, or present with
\* a text that is a JSON document of storedIdentity (json) or not
StoredOf(uuid, privHex, pubHex) ==
    [instance_id |-> uuid, private_key |-> privHex, public_key |-> pubHex]
NoStored == StoredOf("", <<>>, <<>>)
FileOf(state, json, stored) == [state |-> state, json |-> json, stored |-> stored]
Absent == FileOf("absent", FALSE, NoStored)
Unreadable == FileOf("unreadable", FALSE, NoStored)
Malformed == FileOf("text", FALSE, NoStored)
TextFile(stored) == FileOf("text", TRUE, stored)

ErrNotExist == "file does not exist"
Wrapped(msg, err) == <<msg, err>>

\* identity.Load: [err, id]
LoadIdentity(f) ==
    LET priv == HexDecode(f.stored.private_key)
        pub == HexDecode(f.stored.public_key)
        fails(err) == [err |-> err, id |-> NilIdentity]
    IN  IF f.state = "absent" THEN fails(ErrNotExist)
        ELSE IF f.state = "unreadable" THEN fails("permission denied")
        ELSE IF ~f.json THEN fails("parsing identity file")
        ELSE IF ~priv[1] THEN fails("decoding private key")
        ELSE IF ~pub[1] THEN fails("decoding public key")
        ELSE IF Len(priv[2]) # PrivateKeySize THEN fails("invalid private key size")
        ELSE IF Len(pub[2]) # PublicKeySize THEN fails("invalid public key size")
        ELSE [err |-> NoErr,
              id |-> IdentityOf(f.stored.instance_id, priv[2], pub[2],
                                f.stored.private_key, f.stored.public_key)]

\* Identity.Save, where os.WriteFile succeeds ("ok"), fails before it has
\* created the file ("open"), or fails after it has created and truncated
\* it ("write"): [err, file, wrote]
SaveIdentity(id, f, outcome) ==
    IF outcome = "open"
    THEN [err |-> "writing identity file", file |-> f, wrote |-> 0]
    ELSE IF outcome = "write"
    THEN [err |-> "writing identity file", file |-> Malformed, wrote |-> 1]
    ELSE [err |-> NoErr, wrote |-> 1,
          file |-> TextFile(StoredOf(id.InstanceID, id.PrivKeyHex, id.PubKeyHex))]

\* what a call of Generate meets: the step that fails, if any, and what the
\* random source gives
Outcomes == {"ok", "mkdir", "keygen", "uuid", "open", "write"}
Draws == [outcome : Outcomes, seed : Seeds, uuid : UUIDs]
\* Generate, and with it the random source, is reached only when there is
\* no file
DrawsOn(f) ==
    IF f = Absent THEN Draws ELSE {[outcome |-> "ok", seed |-> 1, uuid |-> "0b1e-a"]}

\* identity.Generate: [err, id, file, wrote]
GenerateIdentity(f, g) ==
    LET id == IdentityOf(g.uuid, PrivateOf(g.seed), PublicOf(g.seed),
                         HexEncode(PrivateOf(g.seed)), HexEncode(PublicOf(g.seed)))
        saved == SaveIdentity(id, f, g.outcome)
        fails(err) == [err |-> err, id |-> NilIdentity, file |-> f, wrote |-> 0]
    IN  IF g.outcome = "mkdir" THEN fails("creating identity directory")
        ELSE IF g.outcome = "keygen" THEN fails("generating key pair")
        ELSE IF g.outcome = "uuid" THEN fails("generating instance ID")
        ELSE IF saved.err # NoErr
             THEN [err |-> saved.err, id |-> NilIdentity, file |-> saved.file,
                   wrote |-> saved.wrote]
        ELSE [err |-> NoErr, id |-> id, file |-> saved.file, wrote |-> saved.wrote]

\* LoadOrGenerate that generates an identity whenever Load fails
LoadOrGenerateOnAnyError(f, g) ==
    LET loaded == LoadIdentity(f)
    IN  IF loaded.err = NoErr
        THEN [err |-> NoErr, id |-> loaded.id, file |-> f, wrote |-> 0]
        ELSE GenerateIdentity(f, g)

\* identity.LoadOrGenerate: [err, id, file, wrote]
LoadOrGenerate(f, g) ==
    LET loaded == LoadIdentity(f)
    IN  IF loaded.err = NoErr
        THEN [err |-> NoErr, id |-> loaded.id, file |-> f, wrote |-> 0]
        ELSE IF loaded.err = ErrNotExist THEN GenerateIdentity(f, g)
        ELSE [err |-> Wrapped("loading identity", loaded.err), id |-> NilIdentity,
              file |-> f, wrote |-> 0]

\* the files the program may find at its start
UpperCase(text) ==
    [i \in 1..Len(text) |->
        IF \E v \in 1..16 : HexDigits[v] = text[i]
        THEN UpperHexDigits[CHOOSE v \in 1..16 : HexDigits[v] = text[i]]
        ELSE text[i]]

GoodStored == StoredOf("5d3f-c", HexEncode(PrivateOf(1)), HexEncode(PublicOf(1)))

StartFiles ==
    { Absent, Unreadable, Malformed, TextFile(NoStored), TextFile(GoodStored),
      TextFile([GoodStored EXCEPT !.private_key = UpperCase(@)]),
      TextFile([GoodStored EXCEPT !.private_key = Tail(@)]),
      TextFile([GoodStored EXCEPT !.private_key = [@ EXCEPT ![1] = "g"]]),
      TextFile([GoodStored EXCEPT !.public_key = [@ EXCEPT ![2] = "-"]]),
      TextFile([GoodStored EXCEPT !.private_key = HexEncode(SeedBytes(1))]),
      TextFile([GoodStored EXCEPT !.public_key = HexEncode(PrivateOf(1))]) }

\* the file, and the history of the calls of LoadOrGenerate: how many, what
\* the last one returned, the file it found, the first identity returned
\* without an error, how many times the file was written
ident == unit.ident

NoLoad == [err |-> "none", id |-> NilIdentity, found |-> Absent]

InitIdent ==
    /\ InitRest
    /\ dryRun \in BOOLEAN
    /\ \E f \in StartFiles :
          unit = [kind |-> "ident", aRunning |-> FALSE, aSender |-> "nil",
                  aTailers |-> 0,
                  callers |-> [c \in Callers |-> [pc |-> "idle", ret |-> "none"]],
                  effects |-> NoEffects, late |-> 0,
                  ident |-> [file |-> f, n |-> 0, last |-> NoLoad,
                             first |-> NilIdentity, writes |-> 0]]

\* ident after a call of LoadOrGenerate has returned r
Loaded(r) ==
    [file |-> r.file, n |-> ident.n + 1,
     last |-> [err |-> r.err, id |-> r.id, found |-> ident.file],
     first |-> IF ident.first = NilIdentity /\ r.err = NoErr THEN r.id
               ELSE ident.first,
     writes |-> ident.writes + r.wrote]

\* Run: identity.LoadOrGenerate(a.cfg.IdentityFile), in dry-run mode too;
\* on an error Run returns it, else, unless dry-run, a.sender = sender.New(...)
RunLoadIdentityFile(c, g) ==
    /\ callers[c].pc = "identity"
    /\ g \in DrawsOn(ident.file)
    /\ LET r == LoadOrGenerate(ident.file, g) IN
       IF r.err # NoErr
       THEN unit' = [unit EXCEPT !.ident = Loaded(r),
                                 !.effects.loads = @ + 1,
                                 !.callers = RunReturns(c, ErrIdentity)]
       ELSE IF dryRun
       THEN unit' = [unit EXCEPT !.ident = Loaded(r),
                                 !.effects.loads = @ + 1,
                                 !.callers = RunGoes(c, "tailers")]
       ELSE unit' = [unit EXCEPT !.ident = Loaded(r),
                                 !.effects.loads = @ + 1,
                                 !.callers = RunGoes(c, "register"),
                                 !.aSender = "new"]
    /\ UNCHANGED coreVars

\* a later start of the program on the same path, once Run has returned
\* in this one: LoadOrGenerate again
LoadAgain(g) ==
    /\ ident.n < MaxLoads
    /\ ident.n > 0
    /\ g \in DrawsOn(ident.file)
    /\ \A c \in Callers : callers[c].pc \in {"idle", "returned"}
    /\ unit' = [unit EXCEPT !.ident = Loaded(LoadOrGenerate(ident.file, g))]
    /\ UNCHANGED coreVars

NextIdent ==
    \/ \E c \in Callers : RunEnter(c)
    \/ \E c \in Callers : \E g \in Draws : RunLoadIdentityFile(c, g)
    \/ \E c \in Callers : \E status \in Statuses : RunRegister(c, status)
    \/ \E c \in Callers : \E status \in Statuses : RunActivate(c, status)
    \/ \E c \in Callers : \E ok \in BOOLEAN : RunStartTailer(c, ok)
    \/ \E c \in Callers : RunLoopTick(c)
    \/ \E c \in Callers : RunLoopReturn(c)
    \/ \E g \in Draws : LoadAgain(g)

SpecIdent == InitIdent /\ [][NextIdent]_vars

(***************************************************************************)
(* A counter with a match rule on the field status, fed JSON lines whose   *)
(* status is a number, a string, a boolean, null or left out; next to it   *)
(* the same counter fed the same lines with every numeric status written   *)
(* as a JSON string.                                                       *)
(***************************************************************************)
S500 == <<"5", "0", "0">>

\* the rules: equals "500", in ["500"], regex ^5\d{2}$, contains "00"
StatusRules ==
    { MatchCfg(<<"status">>, S500, {}, "", <<>>),
      MatchCfg(<<"status">>, <<>>, {S500}, "", <<>>),
      MatchCfg(<<"status">>, <<>>, {}, Status5xx, <<>>),
      MatchCfg(<<"status">>, <<>>, {}, "", <<"0", "0">>) }

StatusSource(rule) ==
    SourceCfg("/var/log/a.log", "json", "",
              <<MetricCfg("hits", Counter, rule, NoExtract)>>)

\* the decimal text of the numbers of the lines
StatusNumbers == {0, 50, 200, 500, 503, 5000, 0 - 500}
DecimalText(n) ==
    CASE n = 0 -> <<"0">>
      [] n = 50 -> <<"5", "0">>
      [] n = 200 -> <<"2", "0", "0">>
      [] n = 500 -> S500
      [] n = 503 -> <<"5", "0", "3">>
      [] n = 5000 -> <<"5", "0", "0", "0">>
      [] n = 0 - 500 -> <<"-", "5", "0", "0">>

StatusValues ==
    {Num(n) : n \in StatusNumbers}
    \cup {Str(S500), Str(<<"5", "0", "3">>), Str(<<"5", "x", "x">>), Bool(TRUE), Null}

StatusLines ==
    {Text(Obj([status |-> v])) : v \in StatusValues}
    \cup {Text(Obj([code |-> Num(500)])), Garbage}

\* the line l with a numeric status written as a string
AsText(l) ==
    IF l.valid /\ "status" \in DOMAIN l.doc.obj /\ l.doc.obj.status.kind = "float64"
    THEN Text(Obj([status |-> Str(DecimalText(l.doc.obj.status.num))]))
    ELSE l

\* processLine of the processor of source src on the line l, on the registry ms
ProcessLineWith(ms, src, l) ==
    LET data == Parse(src.Format, l)
    IN  IF ParseFailed(data) THEN ms
        ELSE ApplyCalls(ms, CallsFor(SourceMetrics(src), data))

\* the source, the lines processed, the registry, and the registry of the
\* processor that was given the lines with their numbers as strings
matching == unit.matching

InitMatch ==
    /\ InitRest
    /\ dryRun = FALSE
    /\ \E rule \in StatusRules :
          unit = [kind |-> "match",
                  matching |->
                     [src |-> StatusSource(rule), lines |-> <<>>,
                      ms |-> RegisterSources(NewAggregator, <<StatusSource(rule)>>),
                      asText |-> RegisterSources(NewAggregator, <<StatusSource(rule)>>)]]

\* the tailer delivers the line l: processLine
MatchLine(l) ==
    /\ Len(matching.lines) < MaxLines + 1
    /\ unit' = [unit EXCEPT
                  !.matching.lines = Append(@, l),
                  !.matching.ms = ProcessLineWith(@, matching.src, l),
                  !.matching.asText = ProcessLineWith(@, matching.src, AsText(l))]
    /\ UNCHANGED coreVars

\* the snapshot ticker fires: Snapshot on both registries
MatchSnapshot ==
    /\ matching.lines # <<>>
    /\ unit' = [unit EXCEPT
                  !.matching.lines = <<>>,
                  !.matching.ms = Snapshot(@).metrics,
                  !.matching.asText = Snapshot(@).metrics]
    /\ UNCHANGED coreVars

NextMatch ==
    \/ \E l \in StatusLines : MatchLine(l)
    \/ MatchSnapshot

SpecMatch == InitMatch /\ [][NextMatch]_vars

(***************************************************************************)
(* Writers that call Inc and Add while the ticker calls Snapshot, all on   *)
(* one aggregator: each method takes a.mu on entry and releases it on      *)
(* return.                                                                 *)
(***************************************************************************)
DrainThreads == Writers \cup {Main}
DrainCalls == {IncCall("requests"), AddCall("bytes", 1), AddCall("bytes", 2)}

\* the registry, the mutex, where each thread is, its call, the registry it
\* found on entry, the calls each writer has made; history: the Inc calls
\* that have returned and the total of the Add calls that have returned
\* (done), the totals of the values the Snapshots have returned (drained),
\* and how many Snapshots have returned (n)
drain == unit.drain

InitDrain ==
    /\ InitRest
    /\ dryRun = FALSE
    /\ unit = [kind |-> "drain",
               drain |-> [ms |-> WriterMetrics, mu |-> NoOwner,
                          pc |-> [t \in DrainThreads |-> "idle"],
                          call |-> [t \in DrainThreads |-> NoCall],
                          tmp |-> [t \in DrainThreads |-> NewAggregator],
                          ops |-> [w \in Writers |-> 0],
                          done |-> [inc |-> 0, add |-> 0],
                          drained |-> [requests |-> 0, bytes |-> 0],
                          n |-> 0]]

\* a writer calls Inc or Add: a.mu.Lock(), which waits until the mutex is
\* free, and the read of the registry
DrainCall(w, c) ==
    /\ drain.pc[w] = "idle"
    /\ drain.ops[w] < OpsPerWriter
    /\ CanLock(drain.mu)
    /\ unit' = [unit EXCEPT !.drain.mu = w, !.drain.pc[w] = "locked",
                            !.drain.call[w] = c, !.drain.tmp[w] = drain.ms]
    /\ UNCHANGED coreVars

\* the ticker fires, sendSnapshot calls Snapshot: a.mu.Lock() and the read
\* of the registry
DrainSnapshot ==
    /\ drain.pc[Main] = "idle"
    /\ drain.n < MaxSnapshots + 1
    /\ CanLock(drain.mu)
    /\ unit' = [unit EXCEPT !.drain.mu = Main, !.drain.pc[Main] = "locked",
                            !.drain.call[Main] = SnapshotCall,
                            !.drain.tmp[Main] = drain.ms]
    /\ UNCHANGED coreVars

\* the body of Inc or Add and the deferred a.mu.Unlock(): the call returns
DrainWriterUnlock(w) ==
    /\ w \in Writers
    /\ drain.pc[w] = "locked"
    /\ LET c == drain.call[w] IN
       unit' = [unit EXCEPT
                  !.drain.ms = [n \in DOMAIN @ |->
                                  IF n = c.name THEN ApplyCall(drain.tmp[w], c)[n]
                                  ELSE @[n]],
                  !.drain.mu = NoOwner,
                  !.drain.pc[w] = "idle",
                  !.drain.call[w] = NoCall,
                  !.drain.tmp[w] = NewAggregator,
                  !.drain.ops[w] = @ + 1,
                  !.drain.done.inc = @ + (IF c.op = "Inc" THEN 1 ELSE 0),
                  !.drain.done.add = @ + (IF c.op = "Add" THEN c.num ELSE 0)]
    /\ UNCHANGED coreVars

\* the body of Snapshot and the deferred a.mu.Unlock(): Snapshot returns
\* its map
DrainSnapshotUnlock ==
    /\ drain.pc[Main] = "locked"
    /\ LET snap == Snapshot(drain.tmp[Main]) IN
       unit' = [unit EXCEPT
                  !.drain.ms = snap.metrics,
                  !.drain.mu = NoOwner,
                  !.drain.pc[Main] = "idle",
                  !.drain.call[Main] = NoCall,
                  !.drain.tmp[Main] = NewAggregator,
                  !.drain.drained.requests = @ + snap.result["requests"],
                  !.drain.drained.bytes = @ + snap.result["bytes"],
                  !.drain.n = @ + 1]
    /\ UNCHANGED coreVars

NextDrain ==
    \/ \E w \in Writers : \E c \in DrainCalls : DrainCall(w, c)
    \/ DrainSnapshot
    \/ \E w \in Writers : DrainWriterUnlock(w)
    \/ DrainSnapshotUnlock

SpecDrain == InitDrain /\ [][NextDrain]_vars

(***************************************************************************)
(* The sender on its own: any sequence of Sender.Register and              *)
(* Sender.SendSnapshot on one sender, the collector answering each request *)
(* with any status or not at all.                                          *)
(***************************************************************************)
\* SendSnapshot takes 200 and 202 as success
SnapshotStatuses == {NoResponse, 200, 202, 500}
SnapshotOk(status) == status \in {200, 202}

Post(path, status) == [path |-> path, status |-> status]

\* Sender.registered, and the history: the requests sent with the answers
\* they got, the call that returned last with its error, the number of calls
sender == unit.sender

InitSender ==
    /\ InitRest
    /\ dryRun = FALSE
    /\ unit = [kind |-> "sender",
               sender |-> [registered |-> FALSE, posts |-> <<>>,
                           last |-> [op |-> "none", err |-> NoErr], n |-> 0]]

\* Sender.Register on a sender whose flag is registered, the collector
\* answering rs to the register request and as to the activate request:
\* [registered, posts, err]
RegisterOn(registered, rs, as) ==
    IF registered
    THEN [registered |-> TRUE, posts |-> <<>>, err |-> NoErr]
    ELSE IF ~RegisterOk(rs)
    THEN [registered |-> FALSE, posts |-> <<Post("/v1/register", rs)>>,
          err |-> "register failed"]
    ELSE [registered |-> TRUE,
          posts |-> <<Post("/v1/register", rs), Post("/v1/activate", as)>>,
          err |-> IF ActivateOk(as) THEN NoErr ELSE "activate failed"]

\* Sender.Register
SenderRegister(rs, as) ==
    /\ sender.n < MaxCalls
    /\ LET r == RegisterOn(sender.registered, rs, as) IN
       unit' = [unit EXCEPT !.sender.registered = r.registered,
                            !.sender.posts = @ \o r.posts,
                            !.sender.last = [op |-> "Register", err |-> r.err],
                            !.sender.n = @ + 1]
    /\ UNCHANGED coreVars

\* Sender.SendSnapshot: Register first when the sender is not registered,
\* then the snapshot request, which the collector answers with ss
SenderSendSnapshot(rs, as, ss) ==
    /\ sender.n < MaxCalls
    /\ LET r == RegisterOn(sender.registered, rs, as) IN
       IF ~sender.registered /\ r.err # NoErr
       THEN unit' = [unit EXCEPT !.sender.registered = r.registered,
                                 !.sender.posts = @ \o r.posts,
                                 !.sender.last = [op |-> "SendSnapshot",
                                                  err |-> "registering"],
                                 !.sender.n = @ + 1]
       ELSE unit' = [unit EXCEPT !.sender.registered = r.registered,
                                 !.sender.posts = @ \o r.posts
                                                    \o <<Post("/v1/snapshot", ss)>>,
                                 !.sender.last = [op |-> "SendSnapshot",
                                                  err |-> IF SnapshotOk(ss) THEN NoErr
                                                          ELSE "snapshot failed"],
                                 !.sender.n = @ + 1]
    /\ UNCHANGED coreVars

NextSender ==
    \/ \E rs \in Statuses : \E as \in Statuses : SenderRegister(rs, as)
    \/ \E rs \in Statuses : \E as \in Statuses : \E ss \in SnapshotStatuses :
          SenderSendSnapshot(rs, as, ss)

SpecSender == InitSender /\ [][NextSender]_vars

(***************************************************************************)
(* The start of the tailers in Run on an agent with several sources, next  *)
(* to the run goroutines of the tailers it has started.                    *)
(***************************************************************************)
\* the sources of the agent
NumSources == 2
BootSources == 1..NumSources

\* per source the tail of its tailer ("none", "tailing", "stopped") and its
\* run goroutine ("none", "select", "handle", "returned", "panicked");
\* Agent.tailers; the source the loop of Run is at; what Run returned;
\* history: the lines each goroutine has received, the callbacks made, and
\* the callbacks made after Run had returned
boot == unit.boot

InitBoot ==
    /\ InitRest
    /\ dryRun \in BOOLEAN
    /\ unit = [kind |-> "boot",
               boot |-> [tail |-> [i \in BootSources |-> "none"],
                         run |-> [i \in BootSources |-> "none"],
                         tailers |-> {}, at |-> 1, ret |-> "none",
                         recvs |-> [i \in BootSources |-> 0],
                         calls |-> 0, late |-> 0]]

\* stopTailers: Tailer.Stop on every tailer of a.tailers, which cancels its
\* context and stops its tail without waiting for its goroutine
BootStopped == [i \in BootSources |-> IF i \in boot.tailers THEN "stopped" ELSE boot.tail[i]]

\* the loop over a.processors at the source boot.at: tailer.New and t.Start,
\* which succeeds (ok) and starts the goroutine, or fails: stopTailers, and
\* Run returns the error
BootStartTailer(ok) ==
    /\ boot.ret = "none"
    /\ boot.at <= NumSources
    /\ IF ok
       THEN unit' = [unit EXCEPT !.boot.tail[boot.at] = "tailing",
                                 !.boot.run[boot.at] = "select",
                                 !.boot.tailers = @ \cup {boot.at},
                                 !.boot.at = @ + 1]
       ELSE unit' = [unit EXCEPT !.boot.tail = BootStopped,
                                 !.boot.tailers = {},
                                 !.boot.ret = ErrStartTailer]
    /\ UNCHANGED coreVars

\* the main loop takes ctx.Done() or a termination signal: stopTailers,
\* return nil
BootLoopReturn ==
    /\ boot.ret = "none"
    /\ boot.at > NumSources
    /\ unit' = [unit EXCEPT !.boot.tail = BootStopped, !.boot.tailers = {},
                            !.boot.ret = NoErr]
    /\ UNCHANGED coreVars

\* the select of run receives a line from tail.Lines
BootRecv(i) ==
    /\ boot.run[i] = "select"
    /\ boot.tail[i] = "tailing"
    /\ boot.recvs[i] < MaxLines
    /\ unit' = [unit EXCEPT !.boot.run[i] = "handle", !.boot.recvs[i] = @ + 1]
    /\ UNCHANGED coreVars

\* run calls t.handler(line.Text) on the line it holds and comes back to its
\* select, where it reads t.tail: once Stop has set it to nil the read,
\* which is not ordered with that write, gives nil and the goroutine
\* panics, or gives the tail it was started with
BootHandle(i, stale) ==
    /\ boot.run[i] = "handle"
    /\ unit' = [unit EXCEPT
                  !.boot.calls = @ + 1,
                  !.boot.late = @ + (IF boot.ret # "none" THEN 1 ELSE 0),
                  !.boot.run[i] = IF boot.tail[i] = "stopped" /\ ~stale
                                  THEN "panicked" ELSE "select"]
    /\ UNCHANGED coreVars

\* the select of run takes ctx.Done(), or finds tail.Lines closed
BootExit(i) ==
    /\ boot.run[i] = "select"
    /\ boot.tail[i] = "stopped"
    /\ unit' = [unit EXCEPT !.boot.run[i] = "returned"]
    /\ UNCHANGED coreVars

NextBoot ==
    \/ \E ok \in BOOLEAN : BootStartTailer(ok)
    \/ BootLoopReturn
    \/ \E i \in BootSources : BootRecv(i)
    \/ \E i \in BootSources : \E stale \in BOOLEAN : BootHandle(i, stale)
    \/ \E i \in BootSources : BootExit(i)

SpecBoot == InitBoot /\ [][NextBoot]_vars

(***************************************************************************)
(* The processor of a source, with its three counters, at work on the      *)
(* lines of its tailer while other goroutines call Snapshot, Peek, Reset   *)
(* and GetMetricType on the aggregator.                                    *)
(***************************************************************************)
AcctProc == Proc(1)
AcctNames == {SourceOf(AcctProc).Metrics[i].Name : i \in 1..Len(SourceOf(AcctProc).Metrics)}

\* the registry; processLine: where it is, its line and its rule; the
\* counters linesParsed, linesMatched and parseErrors of the processor;
\* history: the lines handed to processLine, the last map or type an
\* aggregator call has returned, the number of these calls
acct == unit.acct

InitAcct ==
    /\ InitRest
    /\ dryRun = FALSE
    /\ unit = [kind |-> "acct",
               acct |-> [ms |-> RegisterSources(NewAggregator, Sources),
                         pc |-> "idle", line |-> NoLine, idx |-> 0,
                         linesParsed |-> 0, linesMatched |-> 0, parseErrors |-> 0,
                         input |-> <<>>,
                         out |-> [op |-> "none", keys |-> {}, type |-> <<"", FALSE>>],
                         n |-> 0]]

\* the tailer hands the line l to processLine: the parser, and parseErrors
\* or linesParsed
AcctProcessLine(l) ==
    /\ acct.pc = "idle"
    /\ Len(acct.input) < MaxLines
    /\ IF ParseFailed(Parse(SourceOf(AcctProc).Format, l))
       THEN unit' = [unit EXCEPT !.acct.input = Append(@, l),
                                 !.acct.parseErrors = @ + 1]
       ELSE unit' = [unit EXCEPT !.acct.input = Append(@, l),
                                 !.acct.linesParsed = @ + 1,
                                 !.acct.pc = "loop", !.acct.line = l,
                                 !.acct.idx = 1]
    /\ UNCHANGED coreVars

\* the loop that counts a match only when the rule makes a call
AcctRuleCountsCalls ==
    /\ acct.pc = "loop"
    /\ LET m == ProcMetrics(AcctProc)[acct.idx]
           data == Parse(SourceOf(AcctProc).Format, acct.line)
           hit == Match(m.matcher, data)
           called == hit /\ UpdateFor(m.cfg, data) # NoCall
           next == NextRule(acct.idx, called)
           last == next > Len(ProcMetrics(AcctProc))
       IN  unit' = [unit EXCEPT
                      !.acct.linesMatched = @ + (IF called THEN 1 ELSE 0),
                      !.acct.ms = IF hit THEN ApplyCall(@, UpdateFor(m.cfg, data)) ELSE @,
                      !.acct.idx = IF last THEN 0 ELSE next,
                      !.acct.line = IF last THEN NoLine ELSE @,
                      !.acct.pc = IF last THEN "idle" ELSE "loop"]
    /\ UNCHANGED coreVars

\* one turn of the loop over p.metrics: the matcher, linesMatched, and the
\* call of the aggregator that the rule makes, under a.mu
AcctRule ==
    /\ acct.pc = "loop"
    /\ LET m == ProcMetrics(AcctProc)[acct.idx]
           data == Parse(SourceOf(AcctProc).Format, acct.line)
           hit == Match(m.matcher, data)
           next == NextRule(acct.idx, hit /\ UpdateFor(m.cfg, data) # NoCall)
           last == next > Len(ProcMetrics(AcctProc))
       IN  unit' = [unit EXCEPT
                      !.acct.linesMatched = @ + (IF hit THEN 1 ELSE 0),
                      !.acct.ms = IF hit THEN ApplyCall(@, UpdateFor(m.cfg, data)) ELSE @,
                      !.acct.idx = IF last THEN 0 ELSE next,
                      !.acct.line = IF last THEN NoLine ELSE @,
                      !.acct.pc = IF last THEN "idle" ELSE "loop"]
    /\ UNCHANGED coreVars

\* Aggregator.Snapshot
AcctSnapshot ==
    /\ acct.n < MaxTicks
    /\ unit' = [unit EXCEPT
                  !.acct.ms = Snapshot(@).metrics,
                  !.acct.out = [op |-> "Snapshot", keys |-> DOMAIN Snapshot(acct.ms).result,
                                type |-> <<"", FALSE>>],
                  !.acct.n = @ + 1]
    /\ UNCHANGED coreVars

\* Aggregator.Peek
AcctPeek ==
    /\ acct.n < MaxTicks
    /\ unit' = [unit EXCEPT
                  !.acct.out = [op |-> "Peek", keys |-> DOMAIN Peek(acct.ms),
                                type |-> <<"", FALSE>>],
                  !.acct.n = @ + 1]
    /\ UNCHANGED coreVars

\* Aggregator.Reset
AcctReset ==
    /\ acct.n < MaxTicks
    /\ unit' = [unit EXCEPT
                  !.acct.ms = Reset(@),
                  !.acct.out = [op |-> "Reset", keys |-> {}, type |-> <<"", FALSE>>],
                  !.acct.n = @ + 1]
    /\ UNCHANGED coreVars

\* Aggregator.GetMetricType
AcctGetMetricType(name) ==
    /\ acct.n < MaxTicks
    /\ unit' = [unit EXCEPT
                  !.acct.out = [op |-> "GetMetricType", keys |-> {name},
                                type |-> GetMetricType(acct.ms, name)],
                  !.acct.n = @ + 1]
    /\ UNCHANGED coreVars

NextAcct ==
    \/ \E l \in Lines(1) : AcctProcessLine(l)
    \/ AcctRule
    \/ AcctSnapshot
    \/ AcctPeek
    \/ AcctReset
    \/ \E name \in AcctNames \cup {"unknown"} : AcctGetMetricType(name)

SpecAcct == InitAcct /\ [][NextAcct]_vars

(***************************************************************************)
(* Properties                                                              *)
(***************************************************************************)
\* the lines the rule named n is done with since the last Snapshot
Since(n) == SubSeq(seen[n], mark[n] + 1, Len(seen[n]))

\* the line is parsed by the source of p and the rule r of p matches it
Hits(p, r, l) ==
    /\ Parse(SourceOf(p).Format, l) # NoData
    /\ Match(r.matcher, Parse(SourceOf(p).Format, l))

\* the latest line handed to processLine of p, parsed
LastData(p) == Parse(SourceOf(p).Format, input[p][Len(input[p])])

\* processLine of p has returned from a line that parsed
Returned(p) == pc[p] = "idle" /\ input[p] # <<>> /\ LastData(p) # NoData

\* C1: Snapshot returns for every registered metric the value it held just
\* before the call, leaves counters and sums at 0 and sets empty and gauges
\* as they were; a Peek that follows a Snapshot with no write in between
\* shows 0 for every counter, sum and set and the gauge of the snapshot.
C1_SnapshotResetsPeekShows ==
    /\ [][(pc[Main] = "snapshot" /\ pc'[Main] = "publish") =>
            /\ DOMAIN snapResult' = DOMAIN metrics
            /\ DOMAIN metrics' = DOMAIN metrics
            /\ \A n \in DOMAIN metrics :
                 /\ metrics'[n].Type = metrics[n].Type
                 /\ metrics[n].Type = Counter =>
                       snapResult'[n] = metrics[n].Value /\ metrics'[n].Value = 0
                 /\ metrics[n].Type = Sum =>
                       snapResult'[n] = metrics[n].Value /\ metrics'[n].Value = 0
                 /\ metrics[n].Type = Set =>
                       /\ snapResult'[n] = Cardinality(metrics[n].Set)
                       /\ metrics'[n].Set = {}
                 /\ metrics[n].Type = Gauge =>
                       snapResult'[n] = metrics[n].Value /\ metrics'[n] = metrics[n]]_vars
    /\ []((pc[Main] = "dump" /\ lastOp = "Snapshot") =>
            \A n \in DOMAIN metrics :
               IF metrics[n].Type = Gauge THEN peekResult[n] = snapResult[n]
               ELSE peekResult[n] = 0)

\* a Peek right after a Snapshot that returned a non-zero counter, sum, set
\* cardinality and gauge
C1_Witness ==
    /\ pc[Main] = "dump"
    /\ lastOp = "Snapshot"
    /\ snapResult["requests"] > 0
    /\ snapResult["total_bytes"] # 0
    /\ snapResult["unique_users"] > 0
    /\ snapResult["active_sessions"] # 0
    /\ peekResult["active_sessions"] # 0

\* C2: concurrent writers lose no update: once every writer has finished,
\* the counter is the number of Inc calls, the sum is the total of the added
\* values and the set has as many members as distinct strings were added,
\* and this is what the Peek after the join reports.
C2_NoLostUpdate ==
    AllDone =>
        /\ metrics["requests"].Value = issued.inc
        /\ metrics["bytes"].Value = issued.add
        /\ Cardinality(metrics["users"].Set) = Cardinality(issued.set)
        /\ pc[Main] = "dump" =>
              /\ peekResult["requests"] = issued.inc
              /\ peekResult["bytes"] = issued.add
              /\ peekResult["users"] = Cardinality(issued.set)

\* all writers are done and joined, calls of every kind were issued, and the
\* counter was incremented at least twice
C2_Witness ==
    /\ AllDone
    /\ pc[Main] = "dump"
    /\ issued.inc >= 2
    /\ issued.add >= 1
    /\ issued.set # {}

\* some rule of p has made a call for the line in progress and a later rule
\* of p will make another one
MidLine(p) ==
    /\ pc[p] = "loop"
    /\ made[p] # <<>>
    /\ \E i \in idx[p]..Len(ProcMetrics(p)) :
          /\ Hits(p, ProcMetrics(p)[i], line[p])
          /\ UpdateFor(ProcMetrics(p)[i].cfg, Parse(SourceOf(p).Format, line[p])) # NoCall

\* C3 as claimed: a Snapshot never falls between two metric updates of the
\* same line.
C3_LineAtomic == pc[Main] = "snapshot" => \A p \in Procs : ~MidLine(p)

\* C3 as amended: a Snapshot never runs inside one metric update (a call of
\* Inc, SetGauge, Add or AddToSet): while Snapshot holds the lock no
\* processor is between the read and the write of a call, and the lock has
\* one holder.
C3_CallAtomic ==
    /\ pc[Main] = "snapshot" => mu = Main /\ \A p \in Procs : pc[p] # "locked"
    /\ \A p \in Procs : pc[p] = "locked" => mu = p /\ pc[Main] # "snapshot"

\* a Snapshot holds the lock between two metric updates of one line
C3_Witness == pc[Main] = "snapshot" /\ \E p \in Procs : MidLine(p)

\* the number of lines of s that rule r of p hits
CountHits(p, r, s) == Cardinality({i \in 1..Len(s) : Hits(p, r, s[i])})

\* C4: every counter holds the number of lines, among those its rule is
\* done with since the last Snapshot, that parsed and that its matcher
\* matched; this is what Peek reports.
C4_CounterCountsMatches ==
    \A p \in Procs : \A i \in 1..Len(ProcMetrics(p)) :
        LET r == ProcMetrics(p)[i] IN
        r.cfg.Type = "counter" =>
            /\ metrics[r.cfg.Name].Value = CountHits(p, r, Since(r.cfg.Name))
            /\ Peek(metrics)[r.cfg.Name] = CountHits(p, r, Since(r.cfg.Name))

\* a counter with a match condition has counted one of two lines
C4_Witness ==
    /\ metrics["requests"].Value = 1
    /\ Len(Since("requests")) = 2
    /\ metrics["http_5xx"].Value = 1

\* the float-coerced extract field of the lines of s that rule r hits, added up
RECURSIVE SumOf(_, _, _)
SumOf(p, r, s) ==
    IF Len(s) = 0 THEN 0
    ELSE SumOf(p, r, SubSeq(s, 1, Len(s) - 1))
         + (IF /\ Hits(p, r, s[Len(s)])
               /\ GetFieldFloat(Parse(SourceOf(p).Format, s[Len(s)]), r.cfg.Extract.Field)[1]
            THEN GetFieldFloat(Parse(SourceOf(p).Format, s[Len(s)]), r.cfg.Extract.Field)[2]
            ELSE 0)

\* C5: every sum holds the sum, over the matched lines since the last
\* Snapshot, of the float-coerced extract field; a line on which the field is
\* missing or does not coerce adds nothing.
C5_SumAddsExtracted ==
    \A p \in Procs : \A i \in 1..Len(ProcMetrics(p)) :
        LET r == ProcMetrics(p)[i] IN
        r.cfg.Type = "sum" =>
            /\ metrics[r.cfg.Name].Value = SumOf(p, r, Since(r.cfg.Name))
            /\ Peek(metrics)[r.cfg.Name] = SumOf(p, r, Since(r.cfg.Name))

\* a sum made of a number and of a negative number given as a string
C5_Witness ==
    /\ Len(Since("total_bytes")) = 2
    /\ metrics["total_bytes"].Value = 1
    /\ pc[Proc(1)] = "idle"

\* the float-coerced extract field of the last line of s that rule r hits and
\* on which the coercion succeeds, 0 when there is none
RECURSIVE LastOf(_, _, _)
LastOf(p, r, s) ==
    IF Len(s) = 0 THEN 0
    ELSE IF /\ Hits(p, r, s[Len(s)])
            /\ GetFieldFloat(Parse(SourceOf(p).Format, s[Len(s)]), r.cfg.Extract.Field)[1]
         THEN GetFieldFloat(Parse(SourceOf(p).Format, s[Len(s)]), r.cfg.Extract.Field)[2]
         ELSE LastOf(p, r, SubSeq(s, 1, Len(s) - 1))

\* C6: every gauge holds the float-coerced extract field of the most recent
\* matched line on which the coercion succeeded, whatever Snapshots were
\* taken, and 0 when there is no such line.
C6_GaugeKeepsLast ==
    \A p \in Procs : \A i \in 1..Len(ProcMetrics(p)) :
        LET r == ProcMetrics(p)[i] IN
        r.cfg.Type = "gauge" =>
            /\ metrics[r.cfg.Name].Value = LastOf(p, r, seen[r.cfg.Name])
            /\ Peek(metrics)[r.cfg.Name] = LastOf(p, r, seen[r.cfg.Name])

\* a gauge that was set, then went through a Snapshot and a line on which
\* its field does not coerce
C6_Witness ==
    /\ metrics["active_sessions"].Value = 3
    /\ Len(seen["active_sessions"]) = 2
    /\ mark["active_sessions"] = 1
    /\ ~GetFieldFloat(Parse("json", seen["active_sessions"][2]), <<"metrics", "sessions">>)[1]

\* the string-coerced extract fields of the lines of s that rule r hits
ValuesOf(p, r, s) ==
    { GetFieldString(Parse(SourceOf(p).Format, s[i]), r.cfg.Extract.Field)[2] :
        i \in { j \in 1..Len(s) :
                  /\ Hits(p, r, s[j])
                  /\ GetFieldString(Parse(SourceOf(p).Format, s[j]), r.cfg.Extract.Field)[1] } }

\* C7: for every set Peek reports the number of distinct string-coerced
\* extract fields of the matched lines since the last Snapshot on which the
\* coercion succeeded.
C7_SetCountsDistinct ==
    \A p \in Procs : \A i \in 1..Len(ProcMetrics(p)) :
        LET r == ProcMetrics(p)[i] IN
        r.cfg.Type = "set" =>
            /\ metrics[r.cfg.Name].Set = ValuesOf(p, r, Since(r.cfg.Name))
            /\ Peek(metrics)[r.cfg.Name] = Cardinality(ValuesOf(p, r, Since(r.cfg.Name)))

\* the same value was inserted twice since the last Snapshot and counts once
C7_Witness ==
    /\ Len(Since("unique_users")) = 2
    /\ GetFieldString(Parse("json", Since("unique_users")[1]), <<"user_id">>)
         = <<TRUE, <<"a">>>>
    /\ GetFieldString(Parse("json", Since("unique_users")[2]), <<"user_id">>)
         = <<TRUE, <<"a">>>>
    /\ Peek(metrics)["unique_users"] = 1

\* C8: processLine on a line that the parser does not parse leaves every
\* metric as it was, counts a parse error, and returns, ready for the next
\* line.
C8_UnparsedLineChangesNothing ==
    [][\A p \in Procs :
         (Len(input'[p]) > Len(input[p])
          /\ Parse(SourceOf(p).Format, input'[p][Len(input'[p])]) = NoData) =>
            /\ metrics' = metrics
            /\ parseErrors'[p] = parseErrors[p] + 1
            /\ linesParsed'[p] = linesParsed[p]
            /\ pc'[p] = "idle"
            /\ call'[p] = NoCall]_vars

\* a line that did not parse was followed by a line that was counted
C8_Witness ==
    /\ Len(input[Proc(1)]) = 2
    /\ Parse("json", input[Proc(1)][1]) = NoData
    /\ parseErrors[Proc(1)] = 1
    /\ metrics["requests"].Value = 1

\* C9: a rule whose match field is missing from the record, or is not
\* string-coercible, makes no call for the line; processLine returns
\* normally and every later rule that matches and extracts has made its call.
C9_MatchMissSkipsMetric ==
    \A p \in Procs :
        Returned(p) =>
            \A i \in 1..Len(ProcMetrics(p)) :
                LET r == ProcMetrics(p)[i] IN
                (r.cfg.Match.present /\ ~GetFieldString(LastData(p), r.cfg.Match.Field)[1]) =>
                    /\ \A k \in 1..Len(made[p]) : made[p][k].name # r.cfg.Name
                    /\ \A j \in (i + 1)..Len(ProcMetrics(p)) :
                         LET q == ProcMetrics(p)[j] IN
                         (Match(q.matcher, LastData(p)) /\ UpdateFor(q.cfg, LastData(p)) # NoCall)
                            => \E k \in 1..Len(made[p]) : made[p][k] = UpdateFor(q.cfg, LastData(p))

\* a line without the match field of the first rule went through and a later
\* rule was updated from it
C9_Witness ==
    /\ Returned(Proc(1))
    /\ ~GetFieldString(LastData(Proc(1)), <<"event">>)[1]
    /\ made[Proc(1)] # <<>>

\* a matched gauge, sum or set rule of p cannot extract its field from data
ExtractMiss(p, data) ==
    \E i \in 1..Len(ProcMetrics(p)) :
        /\ ProcMetrics(p)[i].cfg.Type \in {"gauge", "sum", "set"}
        /\ Match(ProcMetrics(p)[i].matcher, data)
        /\ UpdateFor(ProcMetrics(p)[i].cfg, data) = NoCall

\* C10: when a matched gauge, sum or set rule cannot extract or coerce its
\* field, only that rule's update is skipped: the calls made for the line are
\* those of all the other matching rules, in rule order.
C10_ExtractMissSkipsOnlyThatMetric ==
    \A p \in Procs :
        (Returned(p) /\ ExtractMiss(p, LastData(p))) =>
            made[p] = CallsFor(ProcMetrics(p), LastData(p))

\* a line on which the gauge and the sum miss and the set and a counter are
\* updated
C10_Witness ==
    /\ Returned(Proc(1))
    /\ ExtractMiss(Proc(1), LastData(Proc(1)))
    /\ Len(made[Proc(1)]) >= 2

\* a step in which the sequential client makes a call
ApiStep == ncalls' = ncalls + 1

\* C11: Peek never changes the state of the aggregator: the registry (names,
\* types, counter, gauge and sum values, set contents) is the same after a
\* Peek as before it, the map Peek returns is the observable value of every
\* registered metric, and a Peek that follows a Peek with no other call
\* between them returns the same map.
C11_PeekChangesNothing ==
    [][(ApiStep /\ apiCall'.op = "Peek") =>
          /\ metrics' = metrics
          /\ peekResult' = [n \in DOMAIN metrics |-> Observe(metrics[n])]
          /\ (peeks >= 1 => peekResult' = peekResult)]_vars

\* a second Peek in a row has returned, on a registry that holds a value
C11_Witness ==
    /\ peeks >= 2
    /\ apiCall.op = "Peek"
    /\ \E n \in DOMAIN metrics : Observe(metrics[n]) > 0 /\ peekResult[n] > 0

\* C12: Register is idempotent per name: Register(name, t) on a name that
\* is already registered, with the same or with another type, changes
\* nothing: the entry keeps its type and its accumulated value or set.
C12_RegisterTwiceKeepsEntry ==
    [][(ApiStep /\ apiCall'.op = "Register" /\ apiCall'.name \in DOMAIN metrics) =>
          metrics' = metrics]_vars

\* the latest call registered, with another type, a name whose entry holds
\* an accumulated value
C12_Witness ==
    /\ apiCall.op = "Register"
    /\ apiCall.name \in DOMAIN metrics
    /\ metrics[apiCall.name].Type # apiCall.type
    /\ Observe(metrics[apiCall.name]) > 0

\* the type a write is for
TypeOfWrite(op) ==
    CASE op = "Inc" -> Counter
      [] op = "SetGauge" -> Gauge
      [] op = "Add" -> Sum
      [] op = "AddToSet" -> Set

WriteOps == {"Inc", "SetGauge", "Add", "AddToSet"}

\* the call c finds its name registered with the type it is for
Accepted(ms, c) == c.name \in DOMAIN ms /\ ms[c.name].Type = TypeOfWrite(c.op)

\* C13: a write (Inc, SetGauge, Add, AddToSet) changes the state only when
\* its name is registered with the matching type: a write to a name that is
\* not registered, or registered with another type, leaves the whole
\* registry as it was, and no write ever creates an entry.
C13_MismatchedWriteIsNoOp ==
    [][(ApiStep /\ apiCall'.op \in WriteOps) =>
          /\ DOMAIN metrics' = DOMAIN metrics
          /\ (~Accepted(metrics, apiCall') => metrics' = metrics)
          /\ \A n \in DOMAIN metrics : n # apiCall'.name => metrics'[n] = metrics[n]]_vars

\* the latest call was a write to a name registered with another type and
\* holding a value, while the other name is not registered
C13_Witness ==
    /\ apiCall.op \in WriteOps
    /\ apiCall.name \in DOMAIN metrics
    /\ ~Accepted(metrics, apiCall)
    /\ Observe(metrics[apiCall.name]) > 0
    /\ DOMAIN metrics # ApiNames

\* what a Snapshot taken now reports for rule r of p, from the lines handed
\* to the callback of p: counter, sum and set from the lines since the last
\* Snapshot, gauge from all of them
Expected(p, r) ==
    CASE r.cfg.Type = "counter" -> CountHits(p, r, Since(r.cfg.Name))
      [] r.cfg.Type = "sum" -> SumOf(p, r, Since(r.cfg.Name))
      [] r.cfg.Type = "set" -> Cardinality(ValuesOf(p, r, Since(r.cfg.Name)))
      [] r.cfg.Type = "gauge" -> LastOf(p, r, seen[r.cfg.Name])

\* the rules of p whose metric a Snapshot resets
Resetting(p) ==
    {i \in 1..Len(ProcMetrics(p)) : ProcMetrics(p)[i].cfg.Type # "gauge"}

\* C14: when the publication of a snapshot fails, Run only logs and goes
\* back to its select: the failure changes nothing in the aggregator, which
\* stays reset (its counters, sums and sets hold what the lines since that
\* Snapshot put there and nothing else), no second request is made for the
\* snapshot, and the Snapshot that follows reports for every counter, sum
\* and set only the lines handled since the failed one.
C14_FailedSnapshotIsDropped ==
    /\ [][(pc[Main] = "send" /\ pc'[Main] = "select" /\ lastSend' = "failed") =>
             metrics' = metrics /\ posts' = posts]_vars
    /\ [](posts <= nsnaps)
    /\ [](lastSend = "failed" =>
             \A p \in Procs : \A i \in Resetting(p) :
                Peek(metrics)[ProcMetrics(p)[i].cfg.Name] = Expected(p, ProcMetrics(p)[i]))
    /\ [][(nsnaps' = nsnaps + 1 /\ lastSend = "failed") =>
             \A p \in Procs : \A i \in Resetting(p) :
                snapResult'[ProcMetrics(p)[i].cfg.Name] = Expected(p, ProcMetrics(p)[i])]_vars

\* two lines that count as requests were handled, one before a Snapshot
\* whose publication failed and one after it; the next Snapshot, now being
\* published, reported one request
C14_Witness ==
    /\ pc[Main] = "send"
    /\ lastSend = "failed"
    /\ nsnaps = 2
    /\ Len(seen["requests"]) = 2
    /\ \A k \in 1..2 : Hits(Proc(1), ProcMetrics(Proc(1))[1], seen["requests"][k])
    /\ snapResult["requests"] = 1
    /\ snapResult["total_bytes"] = 2

\* C15: snapshots are published one at a time: at most one call of
\* SendSnapshot is in progress, and Run takes a Snapshot only when none is,
\* whatever ticks, signals and lines arrive meanwhile.
C15_OnePublicationAtATime ==
    /\ [](inflight <= 1)
    /\ [][nsnaps' = nsnaps + 1 => inflight = 0]_vars

\* a tick, a signal and a line have arrived while a publication is in
\* progress
C15_Witness ==
    /\ inflight = 1
    /\ pc[Main] = "send"
    /\ tickC
    /\ sigChan # <<>>
    /\ pc[Proc(1)] = "handle"

\* C16: handling SIGUSR1 only reads the aggregator: the dump step leaves the
\* registry and the snapshot bookkeeping as they were and prints what Peek
\* returns, so that every ticker Snapshot reports, for every metric, the
\* value that follows from the lines handled, whether or not dumps were
\* made since the previous Snapshot.
C16_DumpOnlyPeeks ==
    /\ [][(pc[Main] = "select" /\ pc'[Main] = "dump") =>
             /\ metrics' = metrics
             /\ peekResult' = [n \in DOMAIN metrics |-> Observe(metrics[n])]
             /\ snapResult' = snapResult
             /\ nsnaps' = nsnaps]_vars
    /\ [][nsnaps' = nsnaps + 1 =>
             \A p \in Procs : \A i \in 1..Len(ProcMetrics(p)) :
                snapResult'[ProcMetrics(p)[i].cfg.Name] = Expected(p, ProcMetrics(p)[i])]_vars

\* a dump is being printed that shows a request, and the ticker has fired
C16_Witness ==
    /\ pc[Main] = "dump"
    /\ peekResult["requests"] > 0
    /\ metrics["requests"].Value > 0
    /\ tickC

\* Run has returned nil after stopping every tailer
RunStopped == pc[Main] = "returned" /\ \A p \in Procs : tail[p] = "nil"

\* C17: every SIGTERM or SIGINT delivered to the running agent eventually
\* leads to the graceful shutdown: Run stops every tailer and returns nil.
C17_TermSignalStopsAgent == termSent ~> RunStopped

\* C18: after the context given to Run is cancelled, every tailer
\* eventually stops (its run loop has returned, its tail is stopped and
\* released) and Run returns nil.
C18_CancelStopsTailers ==
    ctxDone ~> (RunStopped /\ \A p \in Procs : pc[p] = "returned")

\* C19: once Tailer.Stop has returned, the line callback of the tailer is
\* not invoked again.
C19_NoCallbackAfterStop ==
    [][\A p \in Procs : tail[p] = "nil" => input'[p] = input[p]]_vars

\* the text of the lines of rs that were read without error, in order
RECURSIVE OkTexts(_)
OkTexts(rs) ==
    IF Len(rs) = 0 THEN <<>>
    ELSE (IF Head(rs).err THEN <<>> ELSE <<Head(rs).text>>) \o OkTexts(Tail(rs))

\* C20: within one source the lines go to the callback in the order run
\* received them and one at a time: the lines handed to the callback are
\* the lines received without error, in order and once each, except the
\* line just received, which is the only one that may still wait for its
\* callback; run receives the next line only when the callback of every
\* earlier line has returned.
C20_LinesInOrderOnce ==
    /\ [](\A p \in Procs :
            /\ Len(input[p]) <= Len(OkTexts(reads[p]))
            /\ input[p] = SubSeq(OkTexts(reads[p]), 1, Len(input[p]))
            /\ Len(OkTexts(reads[p])) - Len(input[p]) =
                  IF pc[p] = "handle" /\ ~reads[p][Len(reads[p])].err THEN 1 ELSE 0)
    /\ [][\A p \in Procs :
            reads'[p] # reads[p] => input[p] = OkTexts(reads[p])]_vars

\* two different lines were received, and the callback has returned from
\* both lines
C20_Witness ==
    /\ Len(input[Proc(1)]) = 2
    /\ input[Proc(1)][1] # input[Proc(1)][2]
    /\ pc[Proc(1)] = "select"

\* the step is the return of a call op of the client of the Tailer
TailerCalled(ops) == tRet'.n = tRet.n + 1 /\ tRet'.op \in ops

\* C21: Start and StartFromBeginning fail with "already running" on a
\* running tailer and with "file does not exist" on an idle tailer whose
\* path does not exist, and a start that fails changes nothing: the tail,
\* the cancel function, the tails made and the goroutines started are the
\* same after it as before it.
C21_FailedStartChangesNothing ==
    [][TailerCalled(StartOps) =>
          /\ (tailer.tail # NoTail => tRet'.err = ErrRunning)
          /\ (tailer.tail = NoTail /\ ~fileExists => tRet'.err = ErrNoFile)
          /\ (tRet'.err # NoErr =>
                 /\ tailer' = tailer
                 /\ tails' = tails
                 /\ runs' = runs)]_vars

\* a start was refused on a tailer whose run goroutine is running, and the
\* tailer still has the one tail and the one goroutine of its first start
C21_Witness ==
    /\ tRet.op \in StartOps
    /\ tRet.err = ErrRunning
    /\ tailer.tail = 1
    /\ Len(tails) = 1
    /\ tails[1].state = "open"
    /\ Len(runs) = 1
    /\ runs[1].state = "running"

\* C22: Stop on a tailer that is not running (never started, or stopped)
\* returns nil and changes nothing, and every Stop leaves the tailer
\* stopped: t.tail and t.cancel nil, every tail made stopped, the context of
\* every run goroutine cancelled.
C22_StopIsIdempotent ==
    /\ [][TailerCalled({"Stop"}) =>
            /\ tailer' = [tail |-> NoTail, cancel |-> NoCancel]
            /\ \A k \in 1..Len(tails') : tails'[k].state = "stopped"
            /\ \A k \in 1..Len(runs') : runs'[k].ctxDone
            /\ (tailer.tail = NoTail =>
                   /\ tRet'.err = NoErr
                   /\ tailer' = tailer
                   /\ tails' = tails
                   /\ runs' = runs)]_vars

\* Stop was called on a tailer that had been started and stopped already
C22_Witness ==
    /\ tRet.op = "Stop"
    /\ tRet.idle
    /\ tRet.n >= 3
    /\ Len(tails) = 1
    /\ tails[1].state = "stopped"

\* the call of Run by c is in progress
InProgress(c) == callers[c].pc \notin {"idle", "returned"}

\* C23: at most one call of Run is in progress on an agent, and a call
\* made while another is in progress returns "agent already running"
\* without changing the agent, the call in progress, or anything outside:
\* no identity load, no request to the collector, no tailer started.
C23_SecondRunIsRejected ==
    /\ [](Cardinality({c \in Callers : InProgress(c)}) <= 1)
    /\ [][\A c \in Callers :
            (/\ callers[c].pc = "idle"
             /\ callers'[c].pc # "idle"
             /\ \E d \in Callers : InProgress(d)) =>
                /\ callers'[c] = [pc |-> "returned", ret |-> ErrAlreadyRunning]
                /\ \A d \in Callers \ {c} : callers'[d] = callers[d]
                /\ aRunning' = aRunning
                /\ aSender' = aSender
                /\ aTailers' = aTailers
                /\ effects' = effects]_vars

\* a caller was refused while the Run of another caller is in its main
\* loop, with the one identity load and the tailers of that Run
C23_Witness ==
    \E c, d \in Callers :
        /\ callers[c].ret = ErrAlreadyRunning
        /\ callers[d].pc = "loop"
        /\ effects.loads = 1
        /\ effects.starts = Len(Sources)
        /\ aTailers = Len(Sources)

\* C24: in live mode a register or activate request that fails makes Run
\* return the error at once, and then no tailer was started and no
\* snapshot taken; in dry-run mode no register or activate request is made,
\* no sender exists, and Run goes from the identity to the tailers.
C24_RegistrationFailureIsFatal ==
    /\ [](effects.failed # "none" =>
            /\ ~dryRun
            /\ effects.starts = 0
            /\ effects.snaps = 0
            /\ aTailers = 0
            /\ \E c \in Callers : callers[c] = [pc |-> "returned", ret |-> ErrRegistering]
            /\ \A c \in Callers : ~InProgress(c))
    /\ [](dryRun => effects.registers = 0 /\ effects.activates = 0 /\ aSender = "nil")
    /\ [][\A c \in Callers :
            (/\ dryRun
             /\ callers[c].pc = "identity"
             /\ callers'[c].pc \notin {"identity", "returned"}) =>
                callers'[c].pc = "tailers"]_vars

\* live mode: the registration succeeded and the activation failed
C24_Witness ==
    /\ effects.failed = "activate"
    /\ effects.registers = 1
    /\ effects.activates = 1
    /\ aSender = "registered"

\* C25: given the same lines and the same ticks, the agent in dry-run mode
\* and the agent in live mode have the same aggregator state at every
\* point, and their snapshots report the same map, whether the live
\* publications succeed or fail.
C25_DryRunResetsLikeLive ==
    /\ twin["dry"] = twin["live"]
    /\ twinOut["dry"].result = twinOut["live"].result

\* both agents have taken two snapshots, the latest after a line that
\* counted, and the publication of the live agent has failed
C25_Witness ==
    /\ twinN.ticks = 2
    /\ twinN.lines >= 1
    /\ twinOut["live"].outcome = "failed"
    /\ twinOut["dry"].outcome = "printed"
    /\ twinOut["live"].result # Peek(RegisterSources(NewAggregator, Sources))

\* the interval key of the document is written, and decodes to a duration
\* below one second
IntervalSetBelowSecond(doc) ==
    /\ doc.Interval.present
    /\ ParseDuration(doc.Interval.text)[1]
    /\ ParseDuration(doc.Interval.text)[2] < Second

\* C26: config.Parse returns an error for every configuration whose
\* snapshot interval is set to a value below one second, and every
\* configuration Parse accepts has an interval of at least one second.
C26_IntervalBelowOneSecondIsAnError ==
    conf.stage # "text" =>
        /\ IntervalSetBelowSecond(conf.doc) => conf.err # NoErr
        /\ conf.err = NoErr => conf.cfg.Interval >= Second

\* the match blocks of a configuration
MatchesOf(sources) ==
    UNION { { sources[i].Metrics[j].Match :
                j \in {k \in 1..Len(sources[i].Metrics) :
                          sources[i].Metrics[k].Match.present} } :
            i \in 1..Len(sources) }

\* the matchers agent.New has built from match blocks
MatchersOf(agent) ==
    UNION { { agent.processors[i][j].matcher :
                j \in {k \in 1..Len(agent.processors[i]) :
                          ~agent.processors[i][k].matcher.always} } :
            i \in 1..Len(agent.processors) }

\* the predicates that Matcher.Match can apply with the matcher m
PredicatesOf(m) ==
    {k \in {"equals", "in", "regex", "contains"} :
        \/ k = "equals" /\ m.equals # <<>>
        \/ k = "in" /\ m.in # {}
        \/ k = "regex" /\ m.regex # ""
        \/ k = "contains" /\ m.contains # <<>>}

\* C27: a configuration is accepted only if every match block it holds has
\* a non-empty field and exactly one of the conditions equals, in, regex,
\* contains (a match block with none, or with two or more, is rejected), and
\* every matcher that agent.New builds from a match block of an accepted
\* configuration applies exactly one predicate.
C27_MatchHasExactlyOneCondition ==
    /\ (conf.stage # "text" /\ conf.err = NoErr) =>
          \A m \in MatchesOf(conf.doc.Sources) :
              m.Field # <<>> /\ Conditions(m) = 1
    /\ conf.stage = "built" =>
          \A m \in MatchersOf(conf.agent) :
              m.field # <<>> /\ Cardinality(PredicatesOf(m)) = 1

\* an agent was built whose matchers apply, one equals and the other none
\* but the always-true test of a metric without a match block
C27_Witness ==
    /\ conf.stage = "built"
    /\ \E m \in MatchersOf(conf.agent) : PredicatesOf(m) = {"equals"}
    /\ Len(conf.agent.processors) = 2

\* the positions <<source, metric>> of the metric rules of a configuration
RulesOf(sources) ==
    UNION { { <<i, j>> : j \in 1..Len(sources[i].Metrics) } : i \in 1..Len(sources) }

\* C28: a configuration that passes validation never has two metrics with
\* the same name, within one source or across sources, so every aggregator
\* entry of the agent built from it is fed by exactly one metric rule and
\* every configured metric has the type its rule declares.
C28_MetricNamesAreUnique ==
    /\ (conf.stage # "text" /\ conf.err = NoErr) =>
          \A r1, r2 \in RulesOf(conf.cfg.Sources) :
              r1 # r2 => conf.cfg.Sources[r1[1]].Metrics[r1[2]].Name
                         # conf.cfg.Sources[r2[1]].Metrics[r2[2]].Name
    /\ conf.stage = "built" =>
          /\ \A n \in DOMAIN conf.agent.aggregator :
                Cardinality({r \in RulesOf(conf.cfg.Sources) :
                    conf.agent.processors[r[1]][r[2]].cfg.Name = n}) = 1
          /\ \A r \in RulesOf(conf.cfg.Sources) :
                LET rule == conf.agent.processors[r[1]][r[2]].cfg
                IN  conf.agent.aggregator[rule.Name].Type = rule.Type

\* C29: every gauge, sum and set metric of a configuration that passes
\* validation has an extract block whose field is not empty (a metric of
\* these types without an extract block, or with an empty extract field,
\* makes validation fail).
C29_ExtractFieldIsRequired ==
    (conf.stage # "text" /\ conf.err = NoErr) =>
        \A r \in RulesOf(conf.cfg.Sources) :
            LET rule == conf.cfg.Sources[r[1]].Metrics[r[2]]
            IN  rule.Type \in {Gauge, Sum, Set} =>
                    rule.Extract.present /\ rule.Extract.Field # <<>>

\* the position of the first line of more than MaxLineBytes bytes, 0 if none
FirstTooLong(lines) ==
    IF \E i \in 1..Len(lines) : lines[i].len > MaxLineBytes
    THEN CHOOSE i \in 1..Len(lines) :
            /\ lines[i].len > MaxLineBytes
            /\ \A j \in 1..(i - 1) : lines[j].len <= MaxLineBytes
    ELSE 0

\* C30: the scanner hands a line of exactly 1 MiB (1,048,576 bytes before
\* the newline) whole to the handler and reports a line of one byte more as
\* too long; the failure is confined to that line: the lines handed over
\* before it stay handed over, and ProcessReader returns their count
\* together with the error.
C30_OneMiBLineIsDelivered ==
    LET lines == scan.reader.lines
        limit == scan.limit
        k == FirstTooLong(lines)
    IN  /\ \A i \in 1..Len(scan.handled) :
              scan.handled[i] = lines[i].len /\ scan.handled[i] <= MaxLineBytes
        /\ scan.pc = "returned" =>
              /\ \A i \in 1..Len(lines) :
                    ( /\ lines[i].len = MaxLineBytes
                      /\ k = 0 \/ i < k
                      /\ limit = 0 \/ i <= limit
                      /\ lines[i].nl \/ scan.reader.end = "EOF" )
                    => i <= Len(scan.handled) /\ scan.handled[i] = MaxLineBytes
              /\ (k # 0 /\ (limit = 0 \/ k - 1 <= limit)) =>
                    /\ scan.ret = [count |-> k - 1, err |-> Reading(ErrTooLong)]
                    /\ Len(scan.handled) = k - 1

\* ProcessReader has returned 1 with the error: the first line, of 1 MiB,
\* was handed over, the second, of 1 MiB + 1 byte, was too long
C30_Witness ==
    /\ scan.pc = "returned"
    /\ Len(scan.reader.lines) >= 2
    /\ scan.reader.lines[1].len = MaxLineBytes
    /\ scan.reader.lines[2].len = MaxLineBytes + 1
    /\ scan.handled = <<MaxLineBytes>>
    /\ scan.ret = [count |-> 1, err |-> Reading(ErrTooLong)]

\* the number of lines at the head of the reader that Scan returns: those
\* before the first line that is too long and, when the reader ends with an
\* error, before a last line without newline
Scannable(r) ==
    LET good(i) == /\ r.lines[i].len <= MaxLineBytes
                   /\ r.lines[i].nl \/ r.end = "EOF"
        n == Len(r.lines)
    IN  IF \A i \in 1..n : good(i) THEN n
        ELSE (CHOOSE i \in 1..n : ~good(i) /\ \A j \in 1..(i - 1) : good(j)) - 1

\* the number of calls of the handler that the limit allows
Capped(limit, n) == IF limit > 0 /\ limit < n THEN limit ELSE n

\* C31: ProcessReader calls the handler once per line, in the order of the
\* input, with the bytes before the newline: an empty line is handed over
\* as an empty string, a last line without newline is handed over, a
\* trailing newline adds no line; with a limit n > 0 the handler is called
\* min(n, number of lines) times, with no limit once per line, and the
\* number of calls is the count returned.
C31_HandlerOncePerLine ==
    /\ Len(scan.handled) = scan.count
    /\ Len(scan.handled) <= Capped(scan.limit, Scannable(scan.reader))
    /\ \A i \in 1..Len(scan.handled) : scan.handled[i] = scan.reader.lines[i].len
    /\ scan.pc = "returned" =>
          /\ scan.ret.count = Capped(scan.limit, Scannable(scan.reader))
          /\ Len(scan.handled) = scan.ret.count
          /\ (Scannable(scan.reader) = Len(scan.reader.lines)
              /\ scan.reader.end = "EOF") => scan.ret.err = NoErr

\* ProcessReader has returned 2 for a reader of three lines and the limit
\* 2, the first line empty; the third line, without newline, was not handed over
C31_Witness ==
    /\ scan.pc = "returned"
    /\ scan.limit = 2
    /\ Len(scan.reader.lines) = 3
    /\ scan.reader.lines[1].len = 0
    /\ ~scan.reader.lines[3].nl
    /\ scan.reader.end = "EOF"
    /\ scan.handled = <<0, scan.reader.lines[2].len>>
    /\ scan.ret = [count |-> 2, err |-> NoErr]

(* ----------------------------------------------------------------------- *)
\* C32: the identity is created once and is stable afterwards.  A call of
\* LoadOrGenerate that finds no file and returns without an error has
\* written the file once, and Load on the file it leaves gives the
\* identity it returned; every call after a call that returned an identity
\* returns without an error the same instance id, private key and public
\* key, and leaves the file as it found it, without writing it.
C32_IdentityIsStable ==
    [][ident'.n > ident.n =>
          /\ (ident.file = Absent /\ ident'.last.err = NoErr) =>
                /\ ident'.writes = ident.writes + 1
                /\ LoadIdentity(ident'.file) = [err |-> NoErr, id |-> ident'.last.id]
          /\ ident.first # NilIdentity =>
                /\ ident'.last.err = NoErr
                /\ ident'.last.id.InstanceID = ident.first.InstanceID
                /\ ident'.last.id.PrivateKey = ident.first.PrivateKey
                /\ ident'.last.id.PublicKey = ident.first.PublicKey
                /\ ident'.file = ident.file
                /\ ident'.writes = ident.writes]_vars

\* the first call found no file and generated the identity of the second
\* seed, two later calls have returned it, the file was written once
C32_Witness ==
    /\ unit.kind = "ident"
    /\ ident.n = 3
    /\ ident.writes = 1
    /\ ident.last.err = NoErr
    /\ ident.last.found = ident.file
    /\ ident.last.id = ident.first
    /\ ident.first.PrivateKey = PrivateOf(2)
    /\ ident.first.PublicKey = PublicOf(2)
    /\ ident.first.InstanceID \in UUIDs

(* ----------------------------------------------------------------------- *)
\* a file that is there and that Load cannot use: it cannot be read, it is
\* no JSON document, a key is no hexadecimal text, or a key has not the size
\* of an ed25519 key
Unusable(f) ==
    \/ f.state = "unreadable"
    \/ /\ f.state = "text"
       /\ \/ ~f.json
          \/ ~HexDecode(f.stored.private_key)[1]
          \/ ~HexDecode(f.stored.public_key)[1]
          \/ Len(f.stored.private_key) # 2 * PrivateKeySize
          \/ Len(f.stored.public_key) # 2 * PublicKeySize

\* C33: an identity file that is there and cannot be used is a fatal error at
\* startup.  LoadOrGenerate on it returns an error and no identity, generates
\* nothing and leaves the file as it is; the call of Run that met it returns
\* the identity error, and then no registration request was sent, no sender
\* was made and no tailer was started.
C33_UnusableIdentityIsFatal ==
    [][(ident'.n > ident.n /\ Unusable(ident.file)) =>
          /\ ident'.last.err # NoErr
          /\ ident'.last.id = NilIdentity
          /\ ident'.file = ident.file
          /\ ident'.writes = ident.writes
          /\ ident'.first = ident.first
          /\ \A c \in Callers :
                callers[c].pc = "identity" =>
                   /\ callers'[c] = [pc |-> "returned", ret |-> ErrIdentity]
                   /\ effects'.registers = 0
                   /\ effects'.activates = 0
                   /\ effects'.starts = 0
                   /\ aSender' = "nil"
                   /\ aTailers' = 0]_vars

\* Run has met a file whose private key has an odd number of digits and has
\* returned the identity error; a later start has met the same file
C33_Witness ==
    /\ unit.kind = "ident"
    /\ ident.n = 2
    /\ ident.file = TextFile([GoodStored EXCEPT !.private_key = Tail(@)])
    /\ ident.last.found = ident.file
    /\ ident.last.err = Wrapped("loading identity", "decoding private key")
    /\ ident.writes = 0
    /\ \E c \in Callers : callers[c] = [pc |-> "returned", ret |-> ErrIdentity]
    /\ effects.registers = 0
    /\ effects.starts = 0

(* ----------------------------------------------------------------------- *)
\* the lines since the last snapshot whose status, written in decimal when
\* it is a number, is one of the texts
LinesWithStatus(texts) ==
    { i \in 1..Len(matching.lines) :
        LET l == matching.lines[i] IN
        /\ l.valid
        /\ "status" \in DOMAIN l.doc.obj
        /\ \/ l.doc.obj.status.kind = "string" /\ l.doc.obj.status.str \in texts
           \/ /\ l.doc.obj.status.kind = "float64"
              /\ DecimalText(l.doc.obj.status.num) \in texts }

\* C34: a numeric value is matched through its decimal text.  The counter
\* fed lines with numeric statuses holds what the counter fed the same lines
\* with these statuses as strings holds; with the rules equals "500" and
\* in ["500"] it counts the lines whose status is 500 or "500", with the
\* rule ^5\d{2}$ those whose status is 500, 503, "500" or "503".
C34_NumberMatchesAsItsText ==
    /\ matching.ms = matching.asText
    /\ LET rule == matching.src.Metrics[1].Match
           hits == Peek(matching.ms)["hits"]
       IN  /\ (rule.Equals = S500 \/ rule.In = {S500}) =>
                 hits = Cardinality(LinesWithStatus({S500}))
           /\ rule.Regex = Status5xx =>
                 hits = Cardinality(LinesWithStatus({S500, <<"5", "0", "3">>}))

\* with the rule ^5\d{2}$, the lines with the statuses 500, "500" and 200
\* were processed: the counter holds 2
C34_Witness ==
    /\ unit.kind = "match"
    /\ matching.src.Metrics[1].Match.Regex = Status5xx
    /\ matching.lines = <<Text(Obj([status |-> Num(500)])),
                          Text(Obj([status |-> Str(S500)])),
                          Text(Obj([status |-> Num(200)]))>>
    /\ Peek(matching.ms)["hits"] = 2

(* ----------------------------------------------------------------------- *)
\* C35: no increment is lost or counted twice across snapshots.  Whatever
\* the interleaving of the Inc, Add and Snapshot calls, the values the
\* Snapshots have returned for the counter, plus the value a Peek would
\* return now, are the number of Inc calls that have returned; the same
\* holds for the sum and the total of the values of the Add calls that have
\* returned.
C35_SnapshotsLoseNothing ==
    /\ drain.drained.requests + Peek(drain.ms)["requests"] = drain.done.inc
    /\ drain.drained.bytes + Peek(drain.ms)["bytes"] = drain.done.add

\* two Snapshots have returned, each with a part of the calls of the
\* writers, and a writer is inside Inc
C35_Witness ==
    /\ unit.kind = "drain"
    /\ drain.n = 2
    /\ drain.drained.requests = 1
    /\ drain.drained.bytes = 2
    /\ drain.done.inc = 1
    /\ drain.done.add = 3
    /\ \E w \in Writers : drain.mu = w /\ drain.call[w].op = "Inc"

(* ----------------------------------------------------------------------- *)
\* an activate request has got 200 among the first k requests
ActivatedWithin(k) ==
    \E j \in 1..k : sender.posts[j] = Post("/v1/activate", 200)

\* C36: activation comes before any snapshot.  Every snapshot request was
\* sent after an activate request that got 200, and Register has returned
\* without an error only after such a request.
C36_ActivationBeforeSnapshot ==
    /\ \A i \in 1..Len(sender.posts) :
          sender.posts[i].path = "/v1/snapshot" => ActivatedWithin(i - 1)
    /\ (sender.last.op = "Register" /\ sender.last.err = NoErr) =>
          ActivatedWithin(Len(sender.posts))

(* ----------------------------------------------------------------------- *)
\* C37: a failed startup leaves nothing behind.  Once Run has returned the
\* error of a tailer that did not start, the agent holds no tailer, no tail
\* is tailing, and no callback has been made since Run returned.
C37_FailedStartupStopsTailers ==
    boot.ret = ErrStartTailer =>
        /\ boot.tailers = {}
        /\ \A i \in BootSources : boot.tail[i] # "tailing"
        /\ boot.late = 0

(* ----------------------------------------------------------------------- *)
\* C38: Run is one-shot.  The running flag, once set, is never cleared; a
\* call of Run that comes after another call has entered Run returns
\* 'already running' and changes nothing, whether that other call is still
\* in Run or has returned, with nil or with a startup error.
C38_RunIsOneShot ==
    /\ [][aRunning => aRunning']_vars
    /\ [][\A c \in Callers :
            (/\ callers[c].pc = "idle"
             /\ callers'[c].pc # "idle"
             /\ \E d \in Callers \ {c} : callers[d].pc # "idle") =>
                /\ callers'[c] = [pc |-> "returned", ret |-> ErrAlreadyRunning]
                /\ aRunning'
                /\ aSender' = aSender
                /\ aTailers' = aTailers
                /\ effects' = effects]_vars

\* Run has left its main loop with nil and holds no tailer; after that two
\* more calls of Run were made, and both were refused
C38_Witness ==
    /\ unit.kind = "start"
    /\ late = 2
    /\ aTailers = 0
    /\ \E d \in Callers : callers[d] = [pc |-> "returned", ret |-> NoErr]
    /\ Cardinality({c \in Callers : callers[c].ret = ErrAlreadyRunning}) = 2

(* ----------------------------------------------------------------------- *)
\* the lines among ls that the parser of the source does not parse
Unparsed(ls) ==
    {i \in 1..Len(ls) : ParseFailed(Parse(SourceOf(AcctProc).Format, ls[i]))}

\* the pairs of a line of ls and a rule of the source whose matcher is true
\* on the record of the line
MatchedPairs(ls) ==
    { <<i, j>> \in (1..Len(ls)) \X (1..Len(ProcMetrics(AcctProc))) :
        /\ i \notin Unparsed(ls)
        /\ Match(ProcMetrics(AcctProc)[j].matcher,
                 Parse(SourceOf(AcctProc).Format, ls[i])) }

\* C39: the accounting of a source is exact.  When every processLine call
\* made so far has returned, lines-parsed plus parse-errors is the number of
\* these calls, parse-errors is the number of lines the parser did not
\* parse, and lines-matched is the number of pairs of a line and a metric
\* whose matcher was true; Snapshot, Peek, Reset and GetMetricType change
\* none of the three.
C39_AccountingIsExact ==
    /\ [](acct.pc = "idle" =>
            /\ acct.linesParsed + acct.parseErrors = Len(acct.input)
            /\ acct.parseErrors = Cardinality(Unparsed(acct.input))
            /\ acct.linesMatched = Cardinality(MatchedPairs(acct.input)))
    /\ [][acct'.n > acct.n =>
            /\ acct'.linesParsed = acct.linesParsed
            /\ acct'.linesMatched = acct.linesMatched
            /\ acct'.parseErrors = acct.parseErrors]_vars

\* two lines were processed, one of them not parsed, the other matched by
\* four rules, with a Snapshot and a Reset in between
C39_Witness ==
    /\ unit.kind = "acct"
    /\ acct.pc = "idle"
    /\ acct.n = 2
    /\ acct.out.op = "Reset"
    /\ acct.parseErrors = 1
    /\ acct.linesParsed = 1
    /\ acct.linesMatched = 4

(* ----------------------------------------------------------------------- *)
\* the type the configuration gives to the metric name
RegisteredType(name) ==
    SourceOf(AcctProc).Metrics[CHOOSE i \in 1..Len(SourceOf(AcctProc).Metrics) :
                                  SourceOf(AcctProc).Metrics[i].Name = name].Type

\* C40: the keys of every Peek and Snapshot map are the registered metric
\* names.  The map a Peek or a Snapshot returns has one key for each metric
\* registered when the processors were built and no other key, and the
\* registry holds these metrics with the types they were registered with
\* after any operation, Snapshot and Reset included, as GetMetricType
\* reports.
C40_KeysAreTheRegisteredNames ==
    /\ DOMAIN acct.ms = AcctNames
    /\ \A i \in 1..Len(SourceOf(AcctProc).Metrics) :
          acct.ms[SourceOf(AcctProc).Metrics[i].Name].Type
             = SourceOf(AcctProc).Metrics[i].Type
    /\ acct.out.op \in {"Peek", "Snapshot"} => acct.out.keys = AcctNames
    /\ acct.out.op = "GetMetricType" =>
          \A name \in acct.out.keys :
             acct.out.type = IF name \in AcctNames THEN <<RegisteredType(name), TRUE>>
                             ELSE <<"", FALSE>>

\* two lines were processed and a Snapshot was the second call: its map has
\* the five names, the registry holds the gauge with the value it was set to
C40_Witness ==
    /\ unit.kind = "acct"
    /\ acct.n = 2
    /\ acct.out.op = "Snapshot"
    /\ Cardinality(acct.out.keys) = 5
    /\ Len(acct.input) = 2
    /\ acct.pc = "idle"
    /\ acct.ms["active_sessions"].Value # 0
    /\ acct.ms["requests"].Value = 0

====
